---- MODULE Spec2Model ----
(***************************************************************************)
(* Model of the Nexus central scheduler (src/nexus/scheduler/scheduler.cpp)*)
(* Rates and throughputs are integers in units of 0.1 req/s, memory is in  *)
(* abstract units.  BackendDelegate, FrontendDelegate, SessionInfo and the *)
(* model database are not part of the sources at hand; they are modelled   *)
(* from the design document (sections 3, 4.A-4.C).                         *)
(***************************************************************************)
EXTENDS Integers, Sequences, FiniteSets, TLC

----------------------------------------------------------------------------
(* Bounds of the model *)

NumFrontends == 1
NumBackends == 2
\* removals, expiries and rps reports one behaviour may contain
MaxEvents == 2

FrontendIds == 1..NumFrontends
BackendIds == 1..NumBackends

\* Model sessions known to the model database, in the iteration order of
\* session_table_; "X" is a model the database does not know.
SessionSeq == <<"A", "B", "C">>
Sessions == {SessionSeq[i] : i \in 1..Len(SessionSeq)}
UnknownModel == "X"

\* estimate_workload values a frontend may send with LoadModel
Workloads == {0, 10}

\* rps readings a backend may report for one model
RpsValues == {4, 9}

\* static workload files the scheduler may be started with
WorkloadFiles == {<< >>, << <<"A">> >>}

----------------------------------------------------------------------------
(* Generic helpers *)

MinOf(S) == CHOOSE x \in S : \A y \in S : x <= y
MaxOf(S) == CHOOSE x \in S : \A y \in S : y <= x
Lesser(a, b) == IF a <= b THEN a ELSE b
Greater(a, b) == IF a >= b THEN a ELSE b

RECURSIVE SortedSeq(_)
SortedSeq(S) ==
  IF S = {} THEN << >>
  ELSE LET m == MinOf(S) IN <<m>> \o SortedSeq(S \ {m})

SeqRange(q) == {q[i] : i \in 1..Len(q)}

\* the session ids of S in the order of SessionSeq
SessionsInOrder(S) == SelectSeq(SessionSeq, LAMBDA s : s \in S)

\* std::map / std::unordered_map as functions with a partial domain
EmptyMap == [k \in {} |-> 0]
Put(f, k, v) == [x \in (DOMAIN f) \cup {k} |-> IF x = k THEN v ELSE f[x]]
Emplace(f, k, v) == IF k \in DOMAIN f THEN f ELSE Put(f, k, v)
Erase(f, k) == [x \in (DOMAIN f) \ {k} |-> f[x]]

RECURSIVE SumMap(_)
SumMap(f) ==
  IF DOMAIN f = {} THEN 0
  ELSE LET k == CHOOSE x \in DOMAIN f : TRUE IN f[k] + SumMap(Erase(f, k))

RECURSIVE SumSeq(_)
SumSeq(q) == IF q = << >> THEN 0 ELSE Head(q) + SumSeq(Tail(q))

\* integer square root (floor)
ISqrt(n) == MaxOf({r \in 0..n : r * r <= n})

----------------------------------------------------------------------------
(* ModelProfileDB (design section 4.A) *)

\* GetModelInfo: the database knows exactly the models of Sessions
GetModelInfo(model) == model \in Sessions

\* GetPrefixShareModels: A and B share their prefix, C shares with nobody
GetPrefixShareModels(model) ==
  IF model = "A" THEN <<"B">> ELSE IF model = "B" THEN <<"A">> ELSE << >>

\* forward latency per batch size (index = batch), and the latency SLA
Forward(s) == <<2, 3>>
LatencySla(s) == 6
\* requests per duty-cycle time unit expressed in rate units
RateScale == 12
\* memory of a model instance and of the tail layers of a prefix model
ModelMemory(s) == 2
PrefixTailMemory == 1

\* GPU memory a backend reports when it registers
GpuMemory(node_id) == IF node_id = 1 THEN 4 ELSE 2

----------------------------------------------------------------------------
(* BackendDelegate (design section 4.B) *)

NewBackend(node_id) ==
  [alive |-> TRUE, workload_id |-> -1,
   gpu_total_mem |-> GpuMemory(node_id), gpu_used_mem |-> 0,
   models |-> << >>, rps |-> [s \in Sessions |-> 0],
   loaded_heads |-> {}]

\* index of the instance of be that serves session sid, 0 if none
InstanceIndex(be, sid) ==
  LET hits == {i \in 1..Len(be.models) : sid \in SeqRange(be.models[i].sessions)}
  IN IF hits = {} THEN 0 ELSE MinOf(hits)

HasModel(be, sid) == InstanceIndex(be, sid) # 0

RECURSIVE Flatten(_)
Flatten(qq) == IF qq = << >> THEN << >> ELSE Head(qq) \o Flatten(Tail(qq))

GetModelSessions(be) ==
  Flatten([i \in 1..Len(be.models) |-> be.models[i].sessions])

ModelTableIds(be) == SeqRange(GetModelSessions(be))

GetModelThroughput(be, sid) ==
  IF HasModel(be, sid) THEN be.models[InstanceIndex(be, sid)].throughput ELSE 0

GetModelRps(be, sid) == IF HasModel(be, sid) THEN be.rps[sid] ELSE 0

IsIdle(be) == be.models = << >> /\ be.workload_id = -1

IsAlive(node) == node.alive

\* batch/duty-cycle solver of PrepareLoadModel (steps 2 and 3)
Limit(s, b) == LatencySla(s) - Forward(s)[b]
Admissible(s) == {b \in 1..Len(Forward(s)) : Limit(s, b) >= Forward(s)[b]}
DutyCycle(s, b, rate) ==
  IF rate > 0
  THEN Lesser(Limit(s, b), Greater(Forward(s)[b], (b * RateScale) \div rate))
  ELSE Limit(s, b)
BatchThroughput(s, b, rate) == (b * RateScale) \div DutyCycle(s, b, rate)
PlanBatch(s, rate) ==
  LET enough == {b \in Admissible(s) : BatchThroughput(s, b, rate) >= rate}
  IN IF enough # {} THEN MinOf(enough)
     ELSE CHOOSE b \in Admissible(s) :
            \A c \in Admissible(s) :
               \/ BatchThroughput(s, c, rate) < BatchThroughput(s, b, rate)
               \/ BatchThroughput(s, c, rate) = BatchThroughput(s, b, rate) /\ b <= c
PlanInstance(s, rate) ==
  LET WithBatch(b) ==
        [sessions |-> <<s>>, batch |-> b,
         throughput |-> BatchThroughput(s, b, rate),
         memory |-> ModelMemory(s)]
  IN WithBatch(PlanBatch(s, rate))

Rejected == [ok |-> FALSE]

PrepareLoadModel(be, s, rate) ==
  IF HasModel(be, s) \/ Admissible(s) = {} THEN Rejected
  ELSE IF ModelMemory(s) > be.gpu_total_mem - be.gpu_used_mem THEN Rejected
  ELSE [ok |-> TRUE, inst |-> PlanInstance(s, rate),
        occupancy |-> (ModelMemory(s) * 100) \div be.gpu_total_mem]

BackendLoadModel(be, inst) ==
  [be EXCEPT !.models = Append(@, inst),
             !.gpu_used_mem = @ + inst.memory,
             !.loaded_heads = @ \cup {inst.sessions[1]}]

\* LoadModel(YAML node): install one statically configured session
BackendLoadStatic(be, s) == BackendLoadModel(be, PlanInstance(s, 0))

\* LoadPrefixModel(tail, head): the tail joins the head's instance; skipped
\* when the head is not loaded or the tail already is
BackendLoadPrefixModel(be, tail, head) ==
  IF ~HasModel(be, head) \/ HasModel(be, tail) THEN be
  ELSE LET i == InstanceIndex(be, head) IN
       [be EXCEPT !.models[i].sessions = Append(@, tail),
                  !.models[i].memory = @ + PrefixTailMemory,
                  !.gpu_used_mem = @ + PrefixTailMemory]

RemoveAt(q, i) == SubSeq(q, 1, i - 1) \o SubSeq(q, i + 1, Len(q))

\* UnloadModel(session_id): the session leaves its instance; the instance is
\* dropped with its last session
BackendUnloadModel(be, sid) ==
  IF ~HasModel(be, sid) THEN be
  ELSE LET i == InstanceIndex(be, sid)
           inst == be.models[i]
           rest == SelectSeq(inst.sessions, LAMBDA x : x # sid)
       IN IF rest = << >>
          THEN [be EXCEPT !.models = RemoveAt(@, i),
                          !.gpu_used_mem = @ - inst.memory,
                          !.rps[sid] = 0,
                          !.loaded_heads = @ \ {sid}]
          ELSE [be EXCEPT !.models[i].sessions = rest,
                          !.models[i].memory = @ - PrefixTailMemory,
                          !.gpu_used_mem = @ - PrefixTailMemory,
                          !.rps[sid] = 0,
                          !.loaded_heads = @ \ {sid}]

\* UpdateModelThroughput(session_id, new_rate): rescale batch/duty cycle
BackendUpdateModelThroughput(be, sid, rate) ==
  IF ~HasModel(be, sid) THEN be
  ELSE LET i == InstanceIndex(be, sid)
           plan == PlanInstance(be.models[i].sessions[1], rate)
       IN [be EXCEPT !.models[i].batch = plan.batch,
                     !.models[i].throughput = plan.throughput]

\* overload(): some instance cannot keep up with its last-window rps
InstanceOverload(be, i) ==
  \E s \in SeqRange(be.models[i].sessions) : be.rps[s] > be.models[i].throughput
Overload(be) == \E i \in 1..Len(be.models) : InstanceOverload(be, i)

\* index of the instance with the smallest throughput (first one on ties)
SmallestInstance(be) ==
  MinOf({i \in 1..Len(be.models) :
           \A j \in 1..Len(be.models) :
              be.models[j].throughput >= be.models[i].throughput})

RECURSIVE BackendDropSessions(_, _)
BackendDropSessions(be, ids) ==
  IF ids = << >> THEN be
  ELSE BackendDropSessions(BackendUnloadModel(be, Head(ids)), Tail(ids))

\* SpillOutWorkload: while overloaded pop the instance of smallest throughput;
\* returns the backend and the list of (session group, throughput)
RECURSIVE SpillOutWorkload(_, _)
SpillOutWorkload(be, spilled) ==
  IF ~Overload(be) THEN [be |-> be, spillout |-> spilled]
  ELSE LET i == SmallestInstance(be)
           inst == be.models[i]
       IN SpillOutWorkload(BackendDropSessions(be, inst.sessions),
                           Append(spilled, <<inst.sessions, inst.throughput>>))

\* Assign(other): an idle backend takes over the whole plan of other
CanAssign(be, other) == other.gpu_used_mem <= be.gpu_total_mem
BackendAssign(be, other) ==
  [be EXCEPT !.models = other.models,
             !.gpu_used_mem = other.gpu_used_mem,
             !.workload_id = other.workload_id,
             !.loaded_heads = other.loaded_heads]

\* UpdateStats(BackendStatsProto): record the reported rps of loaded models
BackendUpdateStats(be, report) ==
  [be EXCEPT !.alive = TRUE,
             !.rps = [s \in Sessions |->
                        IF HasModel(be, s) THEN report[s] ELSE 0]]

----------------------------------------------------------------------------
(* FrontendDelegate (design section 4.C) *)

NewFrontend == [alive |-> TRUE, subscribe_models |-> {}]
SubscribeModel(fe, sid) == [fe EXCEPT !.subscribe_models = @ \cup {sid}]

----------------------------------------------------------------------------
(* State of the scheduler *)

VARIABLES
  static_workloads,           \* static_workloads_: one list of sessions per slot
  frontends,                  \* frontends_: node id -> FrontendDelegate
  backends,                   \* backends_: node id -> BackendDelegate
  session_table,              \* session_table_: session id -> SessionInfo (by name)
  infos,                      \* the SessionInfo objects session_table_ points to
  session_subscribers,        \* session_subscribers_: session id -> frontend ids
  assigned_static_workloads,  \* assigned_static_workloads_: slot -> backend id
  pushed,                     \* model table last pushed to each backend
  routes,                     \* route last given to each frontend per session
  unbacked,                   \* (f, s, b): route of the last operation that
                              \* listed b for s before s was pushed to b
  prefix_bad,                 \* (b, tail, head): LoadPrefixModel of the last
                              \* operation whose head was not loaded on b
  reply,                      \* the RPC reply on its way to the caller
  events,                     \* removals, expiries and rps reports still to come
  crashed,                    \* an operation ended in an uncaught exception
  mutex,                      \* mutex_: the thread that holds it, NoThread if free
  threads,                    \* where each thread stands in the handler it runs
  run,                        \* the loop of Run: its locals and where it stands
  worker                      \* a backend Worker: its task and what became of it

vars == <<static_workloads, frontends, backends, session_table, infos,
          session_subscribers, assigned_static_workloads, pushed, routes,
          unbacked, prefix_bad, reply, events, crashed, mutex, threads, run, worker>>

\* the variables of the threads
lock_vars == <<mutex, threads, run, worker>>

\* threads: the ticker thread of Run and the RPC threads of HandleRpcs
NoThread == -1
Unseen == [nothing |-> TRUE]
IdleThread == [op |-> "none", pc |-> 0, seen |-> Unseen]

\* the registries the scheduler mutex protects
sched_vars == <<frontends, backends, session_table, infos,
                session_subscribers, assigned_static_workloads>>

NoRoute == [none |-> TRUE]
NoRoutes == [s \in Sessions |-> NoRoute]

NewSessionInfo(sid, static) ==
  [model_sessions |-> <<sid>>, backend_throughputs |-> EmptyMap,
   unassigned_workload |-> 0, has_static_workload |-> static,
   rps_history |-> << >>]

total_throughput(info) == SumMap(info.backend_throughputs)

\* the scheduler state as one value, threaded through the steps of a handler;
\* changed_sessions and changed_backends are the handler's local sets
Cur ==
  [frontends |-> frontends, backends |-> backends,
   session_table |-> session_table, infos |-> infos,
   session_subscribers |-> session_subscribers,
   assigned_static_workloads |-> assigned_static_workloads,
   pushed |-> pushed, routes |-> routes,
   unbacked |-> {}, prefix_bad |-> {},
   changed_sessions |-> {}, changed_backends |-> {},
   crashed |-> FALSE]

Crash(st) == [st EXCEPT !.crashed = TRUE]

FoldSeq(Op(_, _), base, q) ==
  LET RECURSIVE It(_)
      It(i) == IF i = 0 THEN base ELSE Op(It(i - 1), q[i])
  IN It(Len(q))

\* SessionInfo objects are named by the first session id (in table order) that
\* points to them; objects nothing points to are dropped
NameOf(tbl, i) == SessionsInOrder({s \in DOMAIN tbl : tbl[s] = i})[1]
Normalize(st) ==
  LET live == {st.session_table[s] : s \in DOMAIN st.session_table}
  IN [st EXCEPT
        !.session_table = [s \in DOMAIN st.session_table |->
                             NameOf(st.session_table, st.session_table[s])],
        !.infos = [n \in {NameOf(st.session_table, i) : i \in live} |->
                     st.infos[CHOOSE i \in live : NameOf(st.session_table, i) = n]]]

InfoOf(st, sid) == st.infos[st.session_table[sid]]

\* the SessionInfo objects of session_table_ in iteration order, each once
VisitOrder(st) ==
  LET keys == SessionsInOrder(DOMAIN st.session_table)
  IN SelectSeq(keys, LAMBDA s :
       \A t \in DOMAIN st.session_table :
          st.session_table[t] = st.session_table[s] =>
             \E i, j \in 1..Len(keys) : keys[i] = s /\ keys[j] = t /\ i <= j)

----------------------------------------------------------------------------
(* Pushes to backends and frontends *)

\* what node b / frontend f has received so far (nothing when never pushed to)
PushedTo(st, b) == IF b \in DOMAIN st.pushed THEN st.pushed[b] ELSE {}
RoutesOf(st, f) == IF f \in DOMAIN st.routes THEN st.routes[f] ELSE NoRoutes

UpdateModelTableRpc(st, b) ==
  IF st.crashed THEN st
  ELSE [st EXCEPT !.pushed = Put(@, b, ModelTableIds(st.backends[b]))]

PushTables(st, bs) ==
  FoldSeq(LAMBDA acc, b : UpdateModelTableRpc(acc, b), st, SortedSeq(bs))

\* GetModelRoute throws when the session or one of its backends is unknown
RouteFails(st, sid) ==
  \/ sid \notin DOMAIN st.session_table
  \/ \E b \in DOMAIN InfoOf(st, sid).backend_throughputs : b \notin DOMAIN st.backends

GetModelRoute(st, sid) == InfoOf(st, sid).backend_throughputs

\* a route for sid reaches frontend f (LoadModel reply or UpdateModelRoutes)
GiveRoute(st, f, sid) ==
  IF st.crashed THEN st
  ELSE IF RouteFails(st, sid) THEN Crash(st)
  ELSE [st EXCEPT
          !.routes = Put(@, f, [RoutesOf(st, f) EXCEPT
                                  ![sid] = GetModelRoute(st, sid)]),
          !.unbacked = @ \cup {<<f, sid, b>> : b \in
                {x \in DOMAIN GetModelRoute(st, sid) : sid \notin PushedTo(st, x)}}]

UpdateModelRoutes(st, sessions) ==
  IF st.crashed THEN st
  ELSE LET subscribers == UNION {st.session_subscribers[s] :
                                   s \in DOMAIN st.session_subscribers}
           pairs == {<<f, sid>> \in subscribers \X Sessions :
                       /\ \E i \in sessions : sid \in SeqRange(st.infos[i].model_sessions)
                       /\ sid \in DOMAIN st.session_subscribers
                       /\ f \in st.session_subscribers[sid]}
       IN IF \E p \in pairs : RouteFails(st, p[2]) \/ p[1] \notin DOMAIN st.frontends
          THEN Crash(st)
          ELSE FoldSeq(LAMBDA acc, f :
                  FoldSeq(LAMBDA acc2, sid :
                            IF <<f, sid>> \in pairs THEN GiveRoute(acc2, f, sid) ELSE acc2,
                          acc, SessionSeq),
                  st, SortedSeq(subscribers))

----------------------------------------------------------------------------
(* Allocator *)

NoLoad == [backend |-> 0, inst |-> [throughput |-> 0], occupancy |-> 0]

FindBestBackendScan(bes, sess, request_rate, skips) ==
  LET Better(acc, load) ==
        [max_tp |-> IF acc.max_tp.backend = 0
                       \/ load.inst.throughput > acc.max_tp.inst.throughput
                    THEN load ELSE acc.max_tp,
         max_occ |-> IF acc.max_occ.backend = 0
                        \/ load.occupancy > acc.max_occ.occupancy
                     THEN load ELSE acc.max_occ]
      Consider(acc, b, be, plan) ==
        IF b \in skips THEN acc
        ELSE IF ~IsAlive(be) \/ be.workload_id >= 0 THEN acc
        ELSE IF request_rate = 0 /\ ~IsIdle(be) THEN acc
        ELSE IF ~plan.ok THEN acc
        ELSE Better(acc, [backend |-> b, inst |-> plan.inst,
                          occupancy |-> plan.occupancy])
  IN FoldSeq(LAMBDA acc, b :
               Consider(acc, b, bes[b], PrepareLoadModel(bes[b], sess, request_rate)),
             [max_tp |-> NoLoad, max_occ |-> NoLoad],
             SortedSeq(DOMAIN bes))

\* a FindBestBackend that always returns the load of highest throughput
FindBestBackendByThroughput(bes, sess, request_rate, skips) ==
  FindBestBackendScan(bes, sess, request_rate, skips).max_tp

\* result: backend = 0 stands for nullptr
FindBestBackend(bes, sess, request_rate, skips) ==
  LET Choose(scan) ==
        IF request_rate = 0 THEN scan.max_tp
        ELSE IF scan.max_tp.inst.throughput < request_rate THEN scan.max_tp
        ELSE scan.max_occ
  IN Choose(FindBestBackendScan(bes, sess, request_rate, skips))

\* backend->LoadPrefixModel(tail, head) as the scheduler issues it
IssueLoadPrefixModel(st, b, tail, head) ==
  IF st.crashed THEN st
  ELSE IF b \notin DOMAIN st.backends THEN Crash(st)
  ELSE [st EXCEPT
          !.prefix_bad = IF head \in st.backends[b].loaded_heads THEN @
                         ELSE @ \cup {<<b, tail, head>>},
          !.backends[b] = BackendLoadPrefixModel(@, tail, head)]

\* a round that loads the backend and leaves backend_throughputs alone
AllocateOnUnrecorded(st, i, best) ==
  LET Record(loaded) ==
        [loaded EXCEPT
           !.changed_sessions = @ \cup {i},
           !.changed_backends = @ \cup {best.backend}]
  IN Record(FoldSeq(LAMBDA acc, sib :
                      IssueLoadPrefixModel(acc, best.backend, sib,
                                           st.infos[i].model_sessions[1]),
                    [st EXCEPT !.backends[best.backend] =
                                  BackendLoadModel(@, best.inst)],
                    Tail(st.infos[i].model_sessions)))

\* one round of the while loop of AllocateUnassignedWorkloads: the head is
\* loaded on the chosen backend, then every sibling as a prefix model
AllocateOn(st, i, best) ==
  LET Record(loaded) ==
        [loaded EXCEPT
           !.infos[i].backend_throughputs =
               Emplace(@, best.backend, best.inst.throughput),
           !.changed_sessions = @ \cup {i},
           !.changed_backends = @ \cup {best.backend}]
  IN Record(FoldSeq(LAMBDA acc, sib :
                      IssueLoadPrefixModel(acc, best.backend, sib,
                                           st.infos[i].model_sessions[1]),
                    [st EXCEPT !.backends[best.backend] =
                                  BackendLoadModel(@, best.inst)],
                    Tail(st.infos[i].model_sessions)))

\* the while loop of AllocateUnassignedWorkloads for one SessionInfo
AllocateLoop(st0, i, rate0) ==
  LET RECURSIVE Loop(_, _)
      Try(st, rate, best) ==
        IF best.backend = 0 THEN [st |-> st, rate |-> rate]
        ELSE Loop(AllocateOn(st, i, best), rate - best.inst.throughput)
      Loop(st, rate) ==
        IF rate <= 0 THEN [st |-> st, rate |-> rate]
        ELSE Try(st, rate,
                 FindBestBackend(st.backends, st.infos[i].model_sessions[1],
                                 rate, {}))
  IN Loop(st0, rate0)

\* descending sort of SessionInfo names by unassigned_workload in which equal
\* elements keep their order: one of the orders of SortOutcomes
SortByUnassigned(st, q) ==
  FoldSeq(LAMBDA sorted, i :
            SelectSeq(sorted, LAMBDA j :
               st.infos[j].unassigned_workload >= st.infos[i].unassigned_workload)
            \o <<i>> \o
            SelectSeq(sorted, LAMBDA j :
               st.infos[j].unassigned_workload < st.infos[i].unassigned_workload),
          << >>, q)

UnassignedWorkloads(st) ==
  LET Names(keys) == [k \in 1..Len(keys) |-> st.session_table[keys[k]]]
  IN SortByUnassigned(st,
       SelectSeq(Names(VisitOrder(st)),
                 LAMBDA i : st.infos[i].unassigned_workload > 0))

\* the loop over the sorted vector unassigned_workloads
AllocateInOrder(st, order) ==
  LET Residual(i, r) ==
        IF r.st.crashed THEN r.st
        ELSE [r.st EXCEPT !.infos[i].unassigned_workload = Greater(0, r.rate)]
  IN IF st.crashed THEN st
     ELSE FoldSeq(LAMBDA acc, i :
                    IF acc.crashed THEN acc
                    ELSE Residual(i, AllocateLoop(acc, i,
                                       acc.infos[i].unassigned_workload)),
                  st, order)

AllocateUnassignedWorkloads(st) == AllocateInOrder(st, UnassignedWorkloads(st))

----------------------------------------------------------------------------
(* Scheduler configuration (command line flags) *)

EnablePrefixBatch == TRUE
EnableEpochSchedule == TRUE
BeaconIntervalSec == 1
EpochIntervalSec == 1
MinHistoryLen == (EpochIntervalSec + BeaconIntervalSec - 1) \div BeaconIntervalSec
HistoryLen == MinHistoryLen * 2
\* lower bound of the rps estimate (0.1 req/s)
MinEstimate == 1

----------------------------------------------------------------------------
(* AddBackend, RemoveBackend, RemoveFrontend *)

FreshLocals(st) == [st EXCEPT !.changed_sessions = {}, !.changed_backends = {}]

\* pushes at the end of AddBackend, RemoveBackend and RemoveFrontend
PushChanges(body) ==
  UpdateModelRoutes(PushTables(body, body.changed_backends), body.changed_sessions)

\* "Update session info" loop of AddBackend for one session of the backend
AddBackendSession(st, b, sid) ==
  LET Update(known) ==
        [known EXCEPT
           !.infos[known.session_table[sid]].backend_throughputs =
               Emplace(@, b, GetModelThroughput(known.backends[b], sid)),
           !.changed_sessions = @ \cup {known.session_table[sid]}]
  IN Update(IF sid \in DOMAIN st.session_table THEN st
            ELSE [st EXCEPT !.infos = Put(@, sid, NewSessionInfo(sid, TRUE)),
                            !.session_table = Put(@, sid, sid)])

\* static slots no backend has been assigned
FreeSlots(st) ==
  {id \in 0..(Len(static_workloads) - 1) :
      id \notin DOMAIN st.assigned_static_workloads}

\* branch 1 of AddBackend: backend b takes static slot id
AddBackendStatic(st, b, id) ==
  LET Sessions1(loaded) ==
        FoldSeq(LAMBDA acc, sid : AddBackendSession(acc, b, sid),
                loaded, GetModelSessions(loaded.backends[b]))
  IN Sessions1([st EXCEPT
                  !.assigned_static_workloads = Put(@, id, b),
                  !.backends[b] =
                      [FoldSeq(LAMBDA be, sid : BackendLoadStatic(be, sid),
                               @, static_workloads[id + 1])
                         EXCEPT !.workload_id = id],
                  !.changed_backends = @ \cup {b}])

\* an AddBackend that hands out the highest free slot
AddBackendHighestSlot(st0, b) ==
  PushChanges(IF FreeSlots(st0) # {}
              THEN AddBackendStatic(FreshLocals(st0), b, MaxOf(FreeSlots(st0)))
              ELSE AllocateUnassignedWorkloads(FreshLocals(st0)))

AddBackend(st0, b) ==
  PushChanges(IF FreeSlots(st0) # {}
              THEN AddBackendStatic(FreshLocals(st0), b, MinOf(FreeSlots(st0)))
              ELSE AllocateUnassignedWorkloads(FreshLocals(st0)))

\* a reassignment that gives the slot up instead of keeping it taken
ReassignSlotReleased(slots, taken, a) == Erase(slots, taken.workload_id)

\* the static slot of a reassigned plan: workload_id() is tested for being
\* non-zero, and emplace leaves an existing entry as it is
ReassignSlot(slots, taken, a) ==
  IF taken.workload_id # 0 THEN Emplace(slots, taken.workload_id, a) ELSE slots

\* step 1 of RemoveBackend: the backend leaves the SessionInfo of its sessions
RemoveFromSessions(st, bid, model_sessions) ==
  LET Drop(touched) ==
        [st EXCEPT
           !.infos = [i \in DOMAIN st.infos |->
                        IF i \in touched
                        THEN [st.infos[i] EXCEPT
                                !.backend_throughputs = Erase(@, bid)]
                        ELSE st.infos[i]],
           !.changed_sessions = touched]
  IN Drop({st.session_table[sid] :
             sid \in SeqRange(model_sessions) \cap DOMAIN st.session_table})

\* a reassignment that hands the plan to backend a without listing a in the
\* SessionInfo of the sessions
ReassignToUnlisted(st1, a, dead, model_sessions) ==
  LET Taken(taken) ==
        [st1 EXCEPT !.backends[a] = taken,
                    !.assigned_static_workloads = ReassignSlot(@, taken, a),
                    !.changed_backends = @ \cup {a}]
  IN IF \E sid \in SeqRange(model_sessions) : sid \notin DOMAIN st1.session_table
     THEN Crash(st1)
     ELSE Taken(BackendAssign(st1.backends[a], dead))

\* step 2 of RemoveBackend with an idle backend a that accepts the plan
ReassignTo(st1, a, dead, model_sessions) ==
  LET Taken(taken) ==
        [FoldSeq(LAMBDA acc, sid :
                   [acc EXCEPT !.infos[acc.session_table[sid]].backend_throughputs =
                      Emplace(@, a, GetModelThroughput(taken, sid))],
                 [st1 EXCEPT !.backends[a] = taken], model_sessions)
           EXCEPT !.assigned_static_workloads = ReassignSlot(@, taken, a),
                  !.changed_backends = @ \cup {a}]
  IN IF \E sid \in SeqRange(model_sessions) : sid \notin DOMAIN st1.session_table
     THEN Crash(st1)
     ELSE Taken(BackendAssign(st1.backends[a], dead))

\* step 3 of RemoveBackend: the throughput of the removed dynamic backend goes
\* back to unassigned_workload, session id by session id
ReturnWorkload(st1, dead, model_sessions) ==
  FoldSeq(LAMBDA acc, sid :
            [acc EXCEPT !.infos[acc.session_table[sid]].unassigned_workload =
               @ + GetModelThroughput(dead, sid)],
          st1, model_sessions)

\* step 2 of RemoveBackend when no idle backend accepts the plan
ReleaseWorkload(st1, dead, model_sessions) ==
  IF dead.workload_id >= 0
  THEN [st1 EXCEPT !.assigned_static_workloads = Erase(@, dead.workload_id)]
  ELSE IF \E sid \in SeqRange(model_sessions) : sid \notin DOMAIN st1.session_table
  THEN Crash(st1)
  ELSE AllocateUnassignedWorkloads(ReturnWorkload(st1, dead, model_sessions))

\* dead is the delegate of node bid, already erased from backends_
RemoveBackend(st0, bid, dead) ==
  LET Reassign(st1, candidates) ==
        IF candidates # {}
        THEN ReassignTo(st1, MinOf(candidates), dead, GetModelSessions(dead))
        ELSE ReleaseWorkload(st1, dead, GetModelSessions(dead))
  IN IF st0.crashed \/ IsIdle(dead) THEN st0
     ELSE PushChanges(
            Reassign(RemoveFromSessions(FreshLocals(st0), bid, GetModelSessions(dead)),
                     {b \in DOMAIN st0.backends :
                        IsIdle(st0.backends[b]) /\ CanAssign(st0.backends[b], dead)}))

\* body of the loop of RemoveFrontend for one subscribed session
RemoveFrontendSession(st, f, sid) ==
  IF st.crashed THEN st
  ELSE IF sid \notin DOMAIN st.session_subscribers THEN Crash(st)
  ELSE
    LET st1 == [st EXCEPT !.session_subscribers[sid] = @ \ {f}]
    IN IF st1.session_subscribers[sid] # {} THEN st1
       ELSE IF sid \notin DOMAIN st.session_table THEN Crash(st)
       ELSE IF InfoOf(st, sid).has_static_workload THEN st1
       ELSE LET i == st.session_table[sid]
                bes == DOMAIN st.infos[i].backend_throughputs
            IN IF \E b \in bes : b \notin DOMAIN st.backends THEN Crash(st)
               ELSE [st1 EXCEPT
                       !.infos[i].model_sessions = SelectSeq(@, LAMBDA x : x # sid),
                       !.backends = [b \in DOMAIN st.backends |->
                                       IF b \in bes
                                       THEN BackendUnloadModel(st.backends[b], sid)
                                       ELSE st.backends[b]],
                       !.changed_backends = @ \cup bes,
                       !.session_table = Erase(@, sid)]

\* fe is the delegate of node f, already erased from frontends_
RemoveFrontend(st0, f, fe) ==
  LET Push(body) == PushTables(body, body.changed_backends)
  IN Push(FoldSeq(LAMBDA acc, sid : RemoveFrontendSession(acc, f, sid),
                  FreshLocals(st0), SessionsInOrder(fe.subscribe_models)))

----------------------------------------------------------------------------
(* LoadModel *)

\* a subscription to a loaded session that also books one request per second
\* of unassigned workload on the session for the new subscriber
SubscribeExistingBooksWork(st, f, sid) ==
  [st EXCEPT
     !.frontends[f] = SubscribeModel(@, sid),
     !.infos[st.session_table[sid]].unassigned_workload = @ + 1,
     !.session_subscribers =
        IF sid \notin DOMAIN @ THEN Put(@, sid, {f})
        ELSE [@ EXCEPT ![sid] = @ \cup {f}]]

\* subscription of frontend f at the end of the three successful paths
SubscribeExisting(st, f, sid) ==
  [st EXCEPT
     !.frontends[f] = SubscribeModel(@, sid),
     !.session_subscribers =
        IF sid \notin DOMAIN @ THEN Put(@, sid, {f})
        ELSE [@ EXCEPT ![sid] = @ \cup {f}]]

SubscribeNew(st, f, sid) ==
  [st EXCEPT
     !.frontends[f] = SubscribeModel(@, sid),
     !.session_subscribers = Emplace(@, sid, {f})]

\* first session of the prefix-share list that is in session_table_ ("" if none)
FindShareSession(st, model) ==
  LET found == SelectSeq(GetPrefixShareModels(model),
                         LAMBDA s : s \in DOMAIN st.session_table)
  IN IF found = << >> THEN "" ELSE found[1]

LoadModelPrefix(st, f, sid, share) ==
  LET Attach(i, st1) ==
        IF st1.crashed THEN st1
        ELSE GiveRoute(
               SubscribeNew([st1 EXCEPT !.infos[i].model_sessions = Append(@, sid),
                                        !.session_table = Emplace(@, sid, i)],
                            f, sid),
               f, sid)
  IN Attach(st.session_table[share],
            FoldSeq(LAMBDA acc, b :
                      UpdateModelTableRpc(IssueLoadPrefixModel(acc, b, sid, share), b),
                    st, SortedSeq(DOMAIN InfoOf(st, share).backend_throughputs)))

\* the backend selection loop; << >> stands for NOT_ENOUGH_BACKENDS
SelectBackends(st, sid, workload0) ==
  LET RECURSIVE Pick(_, _, _)
      Take(workload, used, assign_backends, best) ==
        IF best.backend = 0 THEN << >>
        ELSE Pick(workload - best.inst.throughput,
                  used \cup {best.backend},
                  Append(assign_backends, best))
      Pick(workload, used, assign_backends) ==
        IF workload <= 0 THEN assign_backends
        ELSE Take(workload, used, assign_backends,
                  FindBestBackend(st.backends, sid, workload, used))
      Single(best) == IF best.backend = 0 THEN << >> ELSE <<best>>
  IN IF workload0 = 0
     THEN Single(FindBestBackend(st.backends, sid, 0, {}))
     ELSE Pick(workload0, {}, << >>)

LoadModelAllocate(st, f, sid, assign_backends) ==
  GiveRoute(
    SubscribeNew(
      [FoldSeq(LAMBDA acc, load :
                 UpdateModelTableRpc(
                   [acc EXCEPT
                      !.backends[load.backend] = BackendLoadModel(@, load.inst),
                      !.infos[sid].backend_throughputs =
                         Emplace(@, load.backend, load.inst.throughput)],
                   load.backend),
               [st EXCEPT !.infos = Put(@, sid, NewSessionInfo(sid, FALSE))],
               assign_backends)
         EXCEPT !.session_table = Emplace(@, sid, sid)],
      f, sid),
    f, sid)

\* a LoadModel that loads the first backend it selects before it knows
\* whether the selection will succeed
LoadModelPartial(st, f, model, workload) ==
  LET LoadFirst(first) ==
        IF first.backend = 0 THEN st
        ELSE UpdateModelTableRpc(
               [st EXCEPT !.backends[first.backend] =
                             BackendLoadModel(@, first.inst)],
               first.backend)
      Allocate(assign_backends) ==
        IF assign_backends = << >>
        THEN [st |-> LoadFirst(FindBestBackend(st.backends, model, workload, {})),
              status |-> "NOT_ENOUGH_BACKENDS"]
        ELSE [st |-> LoadModelAllocate(st, f, model, assign_backends),
              status |-> "CTRL_OK"]
  IN IF ~GetModelInfo(model) THEN [st |-> st, status |-> "MODEL_NOT_FOUND"]
     ELSE IF f \notin DOMAIN st.frontends
     THEN [st |-> st, status |-> "CTRL_SERVER_NOT_REGISTERED"]
     ELSE IF model \in DOMAIN st.session_table
     THEN [st |-> SubscribeExisting(GiveRoute(st, f, model), f, model),
           status |-> "CTRL_OK"]
     ELSE IF EnablePrefixBatch /\ FindShareSession(st, model) # ""
     THEN [st |-> LoadModelPrefix(st, f, model, FindShareSession(st, model)),
           status |-> "CTRL_OK"]
     ELSE Allocate(SelectBackends(st, model, workload))

\* result of the handler: the new state and the status of the reply
LoadModel(st, f, model, workload) ==
  LET Allocate(assign_backends) ==
        IF assign_backends = << >>
        THEN [st |-> st, status |-> "NOT_ENOUGH_BACKENDS"]
        ELSE [st |-> LoadModelAllocate(st, f, model, assign_backends),
              status |-> "CTRL_OK"]
  IN IF ~GetModelInfo(model) THEN [st |-> st, status |-> "MODEL_NOT_FOUND"]
     ELSE IF f \notin DOMAIN st.frontends
     THEN [st |-> st, status |-> "CTRL_SERVER_NOT_REGISTERED"]
     ELSE IF model \in DOMAIN st.session_table
     THEN [st |-> SubscribeExisting(GiveRoute(st, f, model), f, model),
           status |-> "CTRL_OK"]
     ELSE IF EnablePrefixBatch /\ FindShareSession(st, model) # ""
     THEN [st |-> LoadModelPrefix(st, f, model, FindShareSession(st, model)),
           status |-> "CTRL_OK"]
     ELSE Allocate(SelectBackends(st, model, workload))

----------------------------------------------------------------------------
(* BeaconCheck *)

\* a step 2 that records every reading, the zeros of the beginning included
AggregateRpsAlways(st, sid) ==
  LET Record(i, history, rps) ==
        [st EXCEPT !.infos[i].rps_history =
            IF Len(history) + 1 > HistoryLen
            THEN Tail(Append(history, rps)) ELSE Append(history, rps)]
  IN IF st.crashed THEN st
     ELSE IF \E b \in DOMAIN InfoOf(st, sid).backend_throughputs :
                b \notin DOMAIN st.backends
     THEN Crash(st)
     ELSE Record(st.session_table[sid], InfoOf(st, sid).rps_history,
                 SumMap([b \in DOMAIN InfoOf(st, sid).backend_throughputs |->
                           GetModelRps(st.backends[b], sid)]))

\* step 2 for one key of session_table_
AggregateRps(st, sid) ==
  LET Record(i, history, rps) ==
        [st EXCEPT !.infos[i].rps_history =
            IF Len(history) > 0 \/ rps > 0
            THEN (IF Len(history) + 1 > HistoryLen
                  THEN Tail(Append(history, rps)) ELSE Append(history, rps))
            ELSE history]
  IN IF st.crashed THEN st
     ELSE IF \E b \in DOMAIN InfoOf(st, sid).backend_throughputs :
                b \notin DOMAIN st.backends
     THEN Crash(st)
     ELSE Record(st.session_table[sid], InfoOf(st, sid).rps_history,
                 SumMap([b \in DOMAIN InfoOf(st, sid).backend_throughputs |->
                           GetModelRps(st.backends[b], sid)]))

\* step 1: the frontends that missed their beacons are removed
RemoveDeadFrontends(st) ==
  FoldSeq(LAMBDA acc, f :
            IF acc.crashed THEN acc
            ELSE RemoveFrontend([acc EXCEPT !.frontends = Erase(@, f)],
                                f, acc.frontends[f]),
          st, SortedSeq({f \in DOMAIN st.frontends : ~IsAlive(st.frontends[f])}))

\* step 3: the dead backends leave backends_, then RemoveBackend runs for each
RemoveDeadBackends(st) ==
  LET Remove(dead_backends) ==
        FoldSeq(LAMBDA acc, b : RemoveBackend(acc, b, st.backends[b]),
                [st EXCEPT !.backends =
                   [b \in (DOMAIN st.backends) \ dead_backends |-> st.backends[b]]],
                SortedSeq(dead_backends))
  IN IF st.crashed THEN st
     ELSE Remove({b \in DOMAIN st.backends : ~IsAlive(st.backends[b])})

\* step 2: the loop over the keys of session_table_
AggregateModelRps(st1) ==
  FoldSeq(LAMBDA acc, sid : AggregateRps(acc, sid),
          st1, SessionsInOrder(DOMAIN st1.session_table))

BeaconCheck(st) ==
  RemoveDeadBackends(AggregateModelRps(RemoveDeadFrontends(st)))

----------------------------------------------------------------------------
(* EpochSchedule *)

\* sample standard deviation of the rps history, n >= 2 (floor of the root)
RpsStd(h) ==
  LET Std(n, sum, sq) == ISqrt((n * sq - sum * sum) \div (n * (n - 1)))
  IN Std(Len(h), SumSeq(h), SumSeq([k \in 1..Len(h) |-> h[k] * h[k]]))

\* the dynamic backends of a session sorted with the comparison reversed:
\* by ascending throughput
AdjustBackendsAscending(st, i) ==
  LET Sorted(tps) ==
        FoldSeq(LAMBDA sorted, b :
                  SelectSeq(sorted, LAMBDA x : tps[x] <= tps[b]) \o <<b>> \o
                  SelectSeq(sorted, LAMBDA x : tps[x] > tps[b]),
                << >>,
                SelectSeq(SortedSeq(DOMAIN tps),
                          LAMBDA b : st.backends[b].workload_id < 0))
  IN Sorted(st.infos[i].backend_throughputs)

\* backends of a session with a dynamic workload, by descending throughput
\* (ties by node id)
\* an adjust list that takes in the backends of static slots as well
AdjustBackendsAll(st, i) ==
  LET Sorted(tps) ==
        FoldSeq(LAMBDA sorted, b :
                  SelectSeq(sorted, LAMBDA x : tps[x] >= tps[b]) \o <<b>> \o
                  SelectSeq(sorted, LAMBDA x : tps[x] < tps[b]),
                << >>, SortedSeq(DOMAIN tps))
  IN Sorted(st.infos[i].backend_throughputs)

AdjustBackends(st, i) ==
  LET Sorted(tps) ==
        FoldSeq(LAMBDA sorted, b :
                  SelectSeq(sorted, LAMBDA x : tps[x] >= tps[b]) \o <<b>> \o
                  SelectSeq(sorted, LAMBDA x : tps[x] < tps[b]),
                << >>,
                SelectSeq(SortedSeq(DOMAIN tps),
                          LAMBDA b : st.backends[b].workload_id < 0))
  IN Sorted(st.infos[i].backend_throughputs)

StaticThroughput(st, i) ==
  LET Sum(tps) ==
        SumMap([b \in {x \in DOMAIN tps : st.backends[x].workload_id >= 0} |-> tps[b]])
  IN Sum(st.infos[i].backend_throughputs)

\* backend b of SessionInfo i is given the rate est for session sid; the
\* accumulator of the adjust loops holds the state, the remaining estimate and
\* the overloaded backends
Rescale(acc, sid, i, b, be) ==
  [st |-> [acc.st EXCEPT
             !.backends[b] = be,
             !.infos[i].backend_throughputs[b] = GetModelThroughput(be, sid)],
   est |-> acc.est - GetModelThroughput(be, sid),
   over |-> IF Overload(be) THEN Append(acc.over, b) ELSE acc.over]

EpochShrink(st, sid, i, estimate) ==
  LET Step(acc, b, tp) ==
        IF acc.est <= 0
        THEN [acc EXCEPT
                !.st.backends[b] = BackendUnloadModel(@, sid),
                !.st.infos[i].backend_throughputs = Erase(@, b)]
        ELSE IF tp > acc.est
        THEN [Rescale(acc, sid, i, b,
                      BackendUpdateModelThroughput(acc.st.backends[b], sid, acc.est))
                EXCEPT !.over = acc.over]
        ELSE [acc EXCEPT !.est = @ - tp]
  IN FoldSeq(LAMBDA acc, b : Step(acc, b, st.infos[i].backend_throughputs[b]),
             [st |-> st, est |-> estimate - StaticThroughput(st, i), over |-> << >>],
             AdjustBackends(st, i))

EpochGrow(st, sid, i, estimate) ==
  LET Rest(r) ==
        [r EXCEPT !.st.infos[i].unassigned_workload = IF r.est > 0 THEN r.est ELSE @]
  IN Rest(FoldSeq(LAMBDA acc, b :
                    Rescale(acc, sid, i, b,
                            BackendUpdateModelThroughput(acc.st.backends[b], sid,
                                                         acc.est)),
                  [st |-> st, est |-> estimate - StaticThroughput(st, i),
                   over |-> << >>],
                  AdjustBackends(st, i)))

\* the rps estimate of step 1: last reading plus standard deviation
EstimateRps(history) ==
  Greater(history[Len(history)] + RpsStd(history), MinEstimate)

\* step 1 for one SessionInfo, reached through its first key sid
EpochAdjust(acc, sid) ==
  LET Grown(g) == [st |-> g.st, over |-> acc.over \o g.over]
      Adjust(st, i, throughput, estimate_rps) ==
        LET Changed(st1) == [st1 EXCEPT !.changed_sessions = @ \cup {i}]
            Unassigned(x) ==
              [x EXCEPT !.infos[i].unassigned_workload =
                           Greater(0, estimate_rps - throughput)]
        IN IF estimate_rps * 100 >= throughput * 97 /\ estimate_rps <= throughput
           THEN [acc EXCEPT !.st = Unassigned(st)]
           ELSE IF \E b \in DOMAIN st.infos[i].backend_throughputs :
                      b \notin DOMAIN st.backends
           THEN \* backends_.at throws
                [acc EXCEPT !.st = Crash(st)]
           ELSE IF estimate_rps * 100 < throughput * 97
           THEN [acc EXCEPT
                   !.st = EpochShrink(Changed(Unassigned(st)), sid, i, estimate_rps).st]
           ELSE Grown(EpochGrow(Changed(Unassigned(st)), sid, i, estimate_rps))
      Visit(st, i, info) ==
        IF st.crashed \/ Len(info.rps_history) < MinHistoryLen THEN acc
        ELSE IF Len(info.rps_history) = 1
        THEN \* 0/0: the estimate is NaN, every comparison with it is false
             [acc EXCEPT !.st.infos[i].unassigned_workload = 0]
        ELSE Adjust(st, i, total_throughput(info), EstimateRps(info.rps_history))
  IN Visit(acc.st, acc.st.session_table[sid], InfoOf(acc.st, sid))

\* step 2 for one overloaded backend
EpochSpillOut(st, b) ==
  LET Reclaim(r) ==
        FoldSeq(LAMBDA acc, sp :
                  IF acc.crashed THEN acc
                  ELSE IF sp[1][1] \notin DOMAIN acc.session_table THEN Crash(acc)
                  ELSE [acc EXCEPT
                          !.infos[acc.session_table[sp[1][1]]].backend_throughputs =
                              Erase(@, b),
                          !.infos[acc.session_table[sp[1][1]]].unassigned_workload =
                              @ + sp[2]],
                [st EXCEPT !.backends[b] = r.be], r.spillout)
  IN IF st.crashed THEN st
     ELSE Reclaim(SpillOutWorkload(st.backends[b], << >>))

EpochSchedule(st0) ==
  LET Push(alloc) ==
        UpdateModelRoutes(PushTables(alloc, DOMAIN alloc.backends),
                          alloc.changed_sessions)
      SpillOut(adj) == FoldSeq(LAMBDA acc, b : EpochSpillOut(acc, b), adj.st, adj.over)
  IN Push(AllocateUnassignedWorkloads(
            SpillOut(FoldSeq(LAMBDA acc, sid : EpochAdjust(acc, sid),
                             [st |-> FreshLocals(st0), over |-> << >>],
                             VisitOrder(st0)))))

----------------------------------------------------------------------------
(* Initial state and the handlers as actions *)

Statuses == {"CTRL_OK", "MODEL_NOT_FOUND", "CTRL_SERVER_NOT_REGISTERED",
             "NOT_ENOUGH_BACKENDS", "CTRL_FRONTEND_NODE_ID_CONFLICT",
             "CTRL_BACKEND_NODE_ID_CONFLICT"}

\* a request: the RPC, and the node_type and node_id it carries; a
\* LoadModelRequest also carries the model session and estimate_workload
Call(op, node_type, node_id) ==
  [op |-> op, node_type |-> node_type, node_id |-> node_id,
   model |-> "none", workload |-> 0]
LoadModelCall(f, model, workload) ==
  [Call("LoadModel", "FRONTEND_NODE", f) EXCEPT !.model = model,
                                                !.workload = workload]
NoCall == Call("none", "none", 0)
\* a reply on its way: the request it answers and its status
Answer(call, status) ==
  [op |-> call.op, node_type |-> call.node_type, node_id |-> call.node_id,
   model |-> call.model, workload |-> call.workload, status |-> status,
   route |-> NoRoute]
\* the reply of a successful LoadModel carries the route GetModelRoute wrote
\* into it
WithRoute(r, st) ==
  IF r.op = "LoadModel" /\ r.status = "CTRL_OK"
  THEN [r EXCEPT !.route = RoutesOf(st, r.node_id)[r.model]]
  ELSE r
NoReply == Answer(NoCall, "none")

\* Run has not been called
NotRunning == [pc |-> "none"]

\* no backend Worker has been started
NoWorker == [pc |-> "none"]

\* the scheduler right after construction with workload file `files`; the
\* environment will produce `budget` removals, expiries and rps reports
InitOver(files, budget, thread_ids) ==
  /\ static_workloads \in files
  /\ frontends = EmptyMap
  /\ backends = EmptyMap
  /\ session_table = EmptyMap
  /\ infos = EmptyMap
  /\ session_subscribers = EmptyMap
  /\ assigned_static_workloads = EmptyMap
  /\ pushed = EmptyMap
  /\ routes = EmptyMap
  /\ unbacked = {}
  /\ prefix_bad = {}
  /\ reply = NoReply
  /\ events = budget
  /\ crashed = FALSE
  /\ mutex = NoThread
  /\ threads = [t \in thread_ids |-> IdleThread]
  /\ run = NotRunning
  /\ worker = NoWorker

\* the outcome st of a handler becomes the next state; an uncaught exception
\* ends the process where it stood
Install(st) ==
  LET n == Normalize(st)
  IN /\ ~crashed
     /\ UNCHANGED static_workloads
     /\ IF st.crashed
        THEN /\ crashed' = TRUE
             /\ UNCHANGED <<sched_vars, pushed, routes, unbacked, prefix_bad>>
        ELSE /\ crashed' = FALSE
             /\ frontends' = n.frontends
             /\ backends' = n.backends
             /\ session_table' = n.session_table
             /\ infos' = n.infos
             /\ session_subscribers' = n.session_subscribers
             /\ assigned_static_workloads' = n.assigned_static_workloads
             /\ pushed' = [b \in DOMAIN n.backends |-> PushedTo(n, b)]
             /\ routes' = [f \in DOMAIN n.frontends |-> RoutesOf(n, f)]
             /\ unbacked' = n.unbacked
             /\ prefix_bad' = n.prefix_bad

\* a handler ends: its outcome is installed and its reply is on its way
Commit(st, call, status) ==
  /\ reply = NoReply
  /\ reply' = IF st.crashed THEN Answer(call, "exception")
              ELSE IF call = NoCall THEN NoReply
              ELSE WithRoute(Answer(call, status), Normalize(st))
  /\ Install(st)

\* an operation of the environment that counts against the budget
Event(st, call, status) ==
  /\ events > 0
  /\ events' = events - 1
  /\ Commit(st, call, status)

\* any other operation
Reply(st, call, status) ==
  /\ UNCHANGED events
  /\ Commit(st, call, status)

RegisterFrontend(f) ==
  /\ IF f \in DOMAIN frontends
     THEN Reply(Cur, Call("Register", "FRONTEND_NODE", f),
                "CTRL_FRONTEND_NODE_ID_CONFLICT")
     ELSE Reply([Cur EXCEPT !.frontends = Put(@, f, NewFrontend)],
                Call("Register", "FRONTEND_NODE", f), "CTRL_OK")

\* a RegisterBackend whose conflict branch does not return
RegisterBackendNoReturn(b) ==
  /\ IF b \in DOMAIN backends
     THEN Reply(AddBackend([Cur EXCEPT !.backends = Put(@, b, NewBackend(b))], b),
                Call("Register", "BACKEND_NODE", b),
                "CTRL_BACKEND_NODE_ID_CONFLICT")
     ELSE Reply(AddBackend([Cur EXCEPT !.backends = Put(@, b, NewBackend(b))], b),
                Call("Register", "BACKEND_NODE", b), "CTRL_OK")

RegisterBackend(b) ==
  /\ IF b \in DOMAIN backends
     THEN Reply(Cur, Call("Register", "BACKEND_NODE", b),
                "CTRL_BACKEND_NODE_ID_CONFLICT")
     ELSE Reply(AddBackend([Cur EXCEPT !.backends = Put(@, b, NewBackend(b))], b),
                Call("Register", "BACKEND_NODE", b), "CTRL_OK")

UnregisterFrontend(f) ==
  /\ IF f \notin DOMAIN frontends
     THEN Reply(Cur, Call("Unregister", "FRONTEND_NODE", f), "CTRL_OK")
     ELSE Event(RemoveFrontend([Cur EXCEPT !.frontends = Erase(@, f)],
                               f, frontends[f]),
                Call("Unregister", "FRONTEND_NODE", f), "CTRL_OK")

\* an UnregisterBackend whose "cannot find" branch does not return and goes on
\* to dereference the null delegate
UnregisterBackendNoReturn(b) ==
  /\ IF b \notin DOMAIN backends
     THEN Reply(Crash(Cur), Call("Unregister", "BACKEND_NODE", b), "CTRL_OK")
     ELSE Event(RemoveBackend([Cur EXCEPT !.backends = Erase(@, b)],
                              b, backends[b]),
                Call("Unregister", "BACKEND_NODE", b), "CTRL_OK")

UnregisterBackend(b) ==
  /\ IF b \notin DOMAIN backends
     THEN Reply(Cur, Call("Unregister", "BACKEND_NODE", b), "CTRL_OK")
     ELSE Event(RemoveBackend([Cur EXCEPT !.backends = Erase(@, b)],
                              b, backends[b]),
                Call("Unregister", "BACKEND_NODE", b), "CTRL_OK")

LoadModelRpc(f, model, workload) ==
  /\ LET Answered(r) == Reply(r.st, LoadModelCall(f, model, workload), r.status)
     IN Answered(LoadModel(Cur, f, model, workload))

\* an UpdateBackendStats that looks the backend up with operator[], which
\* inserts a delegate for an id it does not find
UpdateBackendStatsInserts(b, report) ==
  /\ IF b \notin DOMAIN backends
     THEN Reply([Cur EXCEPT !.backends = Put(@, b, NewBackend(b))],
                Call("UpdateBackendStats", "BACKEND_NODE", b),
                "CTRL_SERVER_NOT_REGISTERED")
     ELSE Event([Cur EXCEPT !.backends[b] = BackendUpdateStats(@, report)],
                Call("UpdateBackendStats", "BACKEND_NODE", b), "CTRL_OK")

UpdateBackendStats(b, report) ==
  /\ IF b \notin DOMAIN backends
     THEN Reply(Cur, Call("UpdateBackendStats", "BACKEND_NODE", b),
                "CTRL_SERVER_NOT_REGISTERED")
     ELSE Event([Cur EXCEPT !.backends[b] = BackendUpdateStats(@, report)],
                Call("UpdateBackendStats", "BACKEND_NODE", b), "CTRL_OK")

KeepAlive(f) ==
  /\ IF f \notin DOMAIN frontends
     THEN Reply(Cur, Call("KeepAlive", "FRONTEND_NODE", f),
                "CTRL_SERVER_NOT_REGISTERED")
     ELSE Reply([Cur EXCEPT !.frontends[f].alive = TRUE],
                Call("KeepAlive", "FRONTEND_NODE", f), "CTRL_OK")

\* more than two beacon intervals pass without a beacon of the node
FrontendExpires(f) ==
  /\ f \in DOMAIN frontends /\ frontends[f].alive
  /\ Event([Cur EXCEPT !.frontends[f].alive = FALSE], NoCall, "none")
  /\ UNCHANGED lock_vars

BackendExpires(b) ==
  /\ b \in DOMAIN backends /\ backends[b].alive
  /\ Event([Cur EXCEPT !.backends[b].alive = FALSE], NoCall, "none")
  /\ UNCHANGED lock_vars

BeaconCheckTick ==
  Reply(BeaconCheck(Cur), NoCall, "none")

EpochScheduleTick ==
  /\ EnableEpochSchedule
  /\ Reply(EpochSchedule(Cur), NoCall, "none")

\* the caller receives the reply of its RPC
DeliverReply ==
  /\ reply # NoReply
  /\ reply' = NoReply
  /\ UNCHANGED <<static_workloads, sched_vars, pushed, routes, unbacked,
                 prefix_bad, events, crashed, lock_vars>>

\* a BackendStatsProto of backend b whose reading for session s is r; the
\* other models keep their last reading
StatsReport(b, s, r) ==
  [x \in Sessions |->
     IF x = s THEN r
     ELSE IF b \in DOMAIN backends THEN backends[b].rps[x] ELSE 0]

----------------------------------------------------------------------------
(* The scheduler with its handlers run one at a time *)

\* F, B: node ids of frontends and backends; M: models requested; W: estimated
\* workloads; R: rps readings
NextOver(F, B, M, W, R) ==
  \/ \E f \in F : RegisterFrontend(f) /\ UNCHANGED lock_vars
  \/ \E b \in B : RegisterBackend(b) /\ UNCHANGED lock_vars
  \/ \E f \in F : UnregisterFrontend(f) /\ UNCHANGED lock_vars
  \/ \E b \in B : UnregisterBackend(b) /\ UNCHANGED lock_vars
  \/ \E f \in F, m \in M, w \in W : LoadModelRpc(f, m, w) /\ UNCHANGED lock_vars
  \/ \E b \in B, s \in M \cap Sessions, r \in R :
        UpdateBackendStats(b, StatsReport(b, s, r)) /\ UNCHANGED lock_vars
  \/ \E f \in F : KeepAlive(f) /\ UNCHANGED lock_vars
  \/ \E f \in F : FrontendExpires(f)
  \/ \E b \in B : BackendExpires(b)
  \/ BeaconCheckTick /\ UNCHANGED lock_vars
  \/ EpochScheduleTick /\ UNCHANGED lock_vars
  \/ DeliverReply

Init == InitOver(WorkloadFiles, MaxEvents, {})

Next == NextOver(FrontendIds, BackendIds, Sessions \cup {UnknownModel},
                 Workloads, RpsValues)

Spec == Init /\ [][Next]_vars

\* two frontends that share one backend and request the prefix-sharing models
PrefixFrontends == 2
PrefixEvents == 1
InitPrefix == InitOver({<< >>}, PrefixEvents, {})
NextPrefix == NextOver(1..PrefixFrontends, {1}, {"A", "B"}, {0}, {4})
SpecPrefix == InitPrefix /\ [][NextPrefix]_vars

\* backends that take, lose and inherit the statically configured slots
StaticFrontends == 1
StaticBackends == 2
StaticEvents == 1
StaticFiles == {<< <<"A">> >>, << <<"A">>, <<"C">> >>}
InitStatic == InitOver(StaticFiles, StaticEvents, {})
NextStatic == NextOver(1..StaticFrontends, 1..StaticBackends, {"A"}, {0}, {4})
SpecStatic == InitStatic /\ [][NextStatic]_vars

\* requests the scheduler turns down
RpcFrontends == 1
RpcBackends == 2
RpcEvents == 1
RpcWorkloads == {0, 20}
InitRpc == InitOver(WorkloadFiles, RpcEvents, {})
NextRpc == NextOver(1..RpcFrontends, 1..RpcBackends, {"C", UnknownModel},
                    RpcWorkloads, {4})
SpecRpc == InitRpc /\ [][NextRpc]_vars

\* nodes that leave only by falling silent: nobody calls Unregister
BeaconFrontends == 1
BeaconBackends == 1
BeaconEvents == 1
InitBeacon == InitOver({<< >>}, BeaconEvents, {})
NextBeacon ==
  \/ \E f \in 1..BeaconFrontends : RegisterFrontend(f) /\ UNCHANGED lock_vars
  \/ \E b \in 1..BeaconBackends : RegisterBackend(b) /\ UNCHANGED lock_vars
  \/ \E f \in 1..BeaconFrontends, m \in {"C", UnknownModel} :
        LoadModelRpc(f, m, 0) /\ UNCHANGED lock_vars
  \/ \E b \in 1..BeaconBackends :
        UpdateBackendStats(b, StatsReport(b, "C", 4)) /\ UNCHANGED lock_vars
  \/ \E f \in 1..BeaconFrontends : KeepAlive(f) /\ UNCHANGED lock_vars
  \/ \E f \in 1..BeaconFrontends : FrontendExpires(f)
  \/ \E b \in 1..BeaconBackends : BackendExpires(b)
  \/ BeaconCheckTick /\ UNCHANGED lock_vars
  \/ DeliverReply
SpecBeacon == InitBeacon /\ [][NextBeacon]_vars

\* The reply of a handler is sent after the handler has returned, that is
\* after its lock_guard has released mutex_. While the reply of a LoadModel is
\* on its way the thread of Run can take the mutex and run a pass, whose
\* pushes are issued before the pass returns.
BeaconCheckBehindReply ==
  /\ reply.op = "LoadModel"
  /\ Install(BeaconCheck(Cur))
  /\ UNCHANGED <<reply, events, lock_vars>>

EpochScheduleBehindReply ==
  /\ reply.op = "LoadModel"
  /\ EnableEpochSchedule
  /\ Install(EpochSchedule(Cur))
  /\ UNCHANGED <<reply, events, lock_vars>>

RouteFrontends == 1
RouteBackends == 2
RouteEvents == 1
InitRoute == InitOver({<< >>}, RouteEvents, {})
NextRoute ==
  \/ NextOver(1..RouteFrontends, 1..RouteBackends, {"C"}, {0}, {4})
  \/ BeaconCheckBehindReply
  \/ EpochScheduleBehindReply
SpecRoute == InitRoute /\ [][NextRoute]_vars

----------------------------------------------------------------------------
(* Properties of the scheduler state *)

\* throughput of session sid summed over the model tables of the registered
\* backends
TableThroughput(sid) ==
  SumMap([b \in DOMAIN backends |-> GetModelThroughput(backends[b], sid)])

InstanceMemory(be) == SumSeq([i \in 1..Len(be.models) |-> be.models[i].memory])

\* C1: throughput coherence: for every session the sum of its
\* backend_throughputs equals the sum of the throughputs the registered
\* backends hold for it in their model tables
ThroughputCoherence ==
  \A sid \in DOMAIN session_table :
     total_throughput(infos[session_table[sid]]) = TableThroughput(sid)

\* C2: subscription symmetry: a registered frontend is among the subscribers
\* of a session exactly if the session is in its subscribed model set
SubscriptionSymmetry ==
  \A f \in DOMAIN frontends, s \in Sessions :
     (s \in DOMAIN session_subscribers /\ f \in session_subscribers[s])
        <=> s \in frontends[f].subscribe_models

\* C3: memory safety: the instances of an alive registered backend never need
\* more memory than its GPU has
MemorySafety ==
  \A b \in DOMAIN backends :
     IsAlive(backends[b]) => InstanceMemory(backends[b]) <= backends[b].gpu_total_mem

\* C4: backend updates precede frontend updates: no route handed to a
\* frontend lists a backend that has not yet been pushed a model table with
\* the session
BackendUpdatesPrecede == unbacked = {}

\* C5: route convergence: once an operation is over, the last route each
\* subscriber of a session was given equals the session's backend_throughputs
RouteConvergence ==
  \A s \in DOMAIN session_table \cap DOMAIN session_subscribers :
     \A f \in session_subscribers[s] \cap DOMAIN frontends :
        routes[f][s] = infos[session_table[s]].backend_throughputs

\* C7: prefix precondition: every LoadPrefixModel(tail, head) is issued to a
\* backend that was told to load head and not since told to unload it
PrefixPrecondition == prefix_bad = {}

----------------------------------------------------------------------------
(* The handlers as threads that take mutex_ *)

\* what each handler does in program order: "local" works on the request and
\* the reply only, "lock" is the std::lock_guard on mutex_, "access" is the
\* part that reads and writes the registries, "unlock" the end of the guard
RegisterSteps == <<"local", "lock", "access", "unlock">>
UnregisterSteps == <<"local", "lock", "access", "unlock", "local">>
LoadModelSteps == <<"local", "lock", "access", "unlock">>
UpdateBackendStatsSteps == <<"lock", "access", "unlock">>
KeepAliveStepsUnlocked == <<"access">>
KeepAliveSteps == <<"lock", "access", "unlock">>
BeaconCheckSteps == <<"lock", "access", "unlock">>
EpochScheduleSteps == <<"lock", "access", "unlock">>

Program(op) ==
  CASE op = "Register" -> RegisterSteps
    [] op = "Unregister" -> UnregisterSteps
    [] op = "LoadModel" -> LoadModelSteps
    [] op = "UpdateBackendStats" -> UpdateBackendStatsSteps
    [] op = "KeepAlive" -> KeepAliveSteps
    [] op = "BeaconCheck" -> BeaconCheckSteps
    [] op = "EpochSchedule" -> EpochScheduleSteps

\* thread 0 is the thread of Run, the others serve RPCs
NumRpcThreads == 1
TickerThread == 0
ThreadIds == 0..NumRpcThreads
OpsOf(t) ==
  IF t = TickerThread THEN {"BeaconCheck", "EpochSchedule"}
  ELSE {"Register", "Unregister", "LoadModel", "UpdateBackendStats", "KeepAlive"}

LockEvents == 1
LockFrontends == {1}
LockBackends == {1}
LockModels == {"A"}

\* the step thread t is about to take
Token(t) ==
  IF threads[t].op = "none" THEN "idle" ELSE Program(threads[t].op)[threads[t].pc]

Advance(th) ==
  IF th.pc = Len(Program(th.op)) THEN IdleThread
  ELSE [th EXCEPT !.pc = @ + 1, !.seen = Unseen]

\* the registries as thread t finds them
SchedState == <<frontends, backends, session_table, infos,
                session_subscribers, assigned_static_workloads>>

state_vars == <<static_workloads, sched_vars, pushed, routes, unbacked,
                prefix_bad, reply, events, crashed>>

\* a request arrives at an RPC thread, or the loop of Run starts a pass
Receive(t, op) ==
  /\ threads[t] = IdleThread
  /\ threads' = [threads EXCEPT ![t] = [op |-> op, pc |-> 1, seen |-> Unseen]]
  /\ UNCHANGED <<state_vars, mutex, run, worker>>

LocalStep(t) ==
  /\ Token(t) = "local"
  /\ threads' = [threads EXCEPT ![t] = Advance(@)]
  /\ UNCHANGED <<state_vars, mutex, run, worker>>

\* LoadModel returns before it locks when the model database has no entry
ReturnModelNotFound(t) ==
  /\ Token(t) = "local" /\ threads[t].op = "LoadModel"
  /\ \E f \in LockFrontends : LoadModelRpc(f, UnknownModel, 0)
  /\ threads' = [threads EXCEPT ![t] = IdleThread]
  /\ UNCHANGED <<mutex, run, worker>>

Lock(t) ==
  /\ Token(t) = "lock"
  /\ mutex = NoThread
  /\ mutex' = t
  /\ threads' = [threads EXCEPT ![t] = Advance(@)]
  /\ UNCHANGED <<state_vars, run, worker>>

\* the first statement of the handler that reads a registry
FirstAccess(t) ==
  /\ Token(t) = "access"
  /\ threads[t].seen = Unseen
  /\ threads' = [threads EXCEPT ![t].seen = SchedState]
  /\ UNCHANGED <<state_vars, mutex, run, worker>>

\* the rest of the handler, up to its last write
LastAccess(t) ==
  /\ Token(t) = "access"
  /\ threads[t].seen # Unseen
  /\ \/ threads[t].op = "Register" /\ \E f \in LockFrontends : RegisterFrontend(f)
     \/ threads[t].op = "Register" /\ \E b \in LockBackends : RegisterBackend(b)
     \/ threads[t].op = "Unregister" /\ \E f \in LockFrontends : UnregisterFrontend(f)
     \/ threads[t].op = "Unregister" /\ \E b \in LockBackends : UnregisterBackend(b)
     \/ threads[t].op = "LoadModel"
          /\ \E f \in LockFrontends, m \in LockModels : LoadModelRpc(f, m, 0)
     \/ threads[t].op = "UpdateBackendStats"
          /\ \E b \in LockBackends, s \in LockModels :
                UpdateBackendStats(b, StatsReport(b, s, 4))
     \/ threads[t].op = "KeepAlive" /\ \E f \in LockFrontends : KeepAlive(f)
     \/ threads[t].op = "BeaconCheck" /\ BeaconCheckTick
     \/ threads[t].op = "EpochSchedule" /\ EpochScheduleTick
  /\ threads' = [threads EXCEPT ![t] = Advance(@)]
  /\ UNCHANGED <<mutex, run, worker>>

Unlock(t) ==
  /\ Token(t) = "unlock"
  /\ mutex' = IF mutex = t THEN NoThread ELSE mutex
  /\ threads' = [threads EXCEPT ![t] = Advance(@)]
  /\ UNCHANGED <<state_vars, run, worker>>

InitLock == InitOver({<< >>}, LockEvents, ThreadIds)

NextLock ==
  \/ \E t \in ThreadIds : \E op \in OpsOf(t) : Receive(t, op)
  \/ \E t \in ThreadIds : LocalStep(t)
  \/ \E t \in ThreadIds : ReturnModelNotFound(t)
  \/ \E t \in ThreadIds : Lock(t)
  \/ \E t \in ThreadIds : FirstAccess(t)
  \/ \E t \in ThreadIds : LastAccess(t)
  \/ \E t \in ThreadIds : Unlock(t)
  \/ DeliverReply

SpecLock == InitLock /\ [][NextLock]_vars

StaticSlotUniqueness ==
  \A b1, b2 \in DOMAIN backends :
     (/\ IsAlive(backends[b1]) /\ IsAlive(backends[b2])
      /\ backends[b1].workload_id >= 0
      /\ backends[b1].workload_id = backends[b2].workload_id) => b1 = b2

\* an idle backend has inherited slot 0 from a backend that left, and the
\* backend that left is registered again without a slot
StaticSlotInherited ==
  \E a, b \in DOMAIN backends :
     /\ a # b
     /\ IsAlive(backends[a]) /\ backends[a].workload_id = 0
     /\ 0 \in DOMAIN assigned_static_workloads
     /\ assigned_static_workloads[0] = b
     /\ IsAlive(backends[b]) /\ backends[b].workload_id = -1

\* the step is a LoadModel call answered with status
LoadModelAnswered(status) ==
  reply = NoReply /\ reply'.op = "LoadModel" /\ reply'.status = status

\* C9: a LoadModel answered NOT_ENOUGH_BACKENDS changes no backend, session,
\* subscription or pushed update
NotEnoughBackendsNoChange ==
  [][LoadModelAnswered("NOT_ENOUGH_BACKENDS")
        => UNCHANGED <<sched_vars, pushed, routes>>]_vars

\* backends the allocation loop of LoadModel can select for model C
Selectable ==
  {b \in DOMAIN backends :
      /\ IsAlive(backends[b]) /\ backends[b].workload_id < 0
      /\ PrepareLoadModel(backends[b], "C", 20).ok}

\* NOT_ENOUGH_BACKENDS is the answer although two backends could be selected
NotEnoughAfterTwo ==
  /\ reply.op = "LoadModel" /\ reply.status = "NOT_ENOUGH_BACKENDS"
  /\ "C" \notin DOMAIN session_table
  /\ Cardinality(Selectable) >= 2

\* the step is a Register call for a node id that is already registered
DuplicateRegister ==
  /\ reply = NoReply /\ reply'.op = "Register"
  /\ reply'.node_id \in (IF reply'.node_type = "BACKEND_NODE"
                         THEN DOMAIN backends ELSE DOMAIN frontends)

\* C10: Register of a node id already registered for its type is answered
\* with the conflict status of the type and changes nothing
DuplicateRegisterRejected ==
  [][DuplicateRegister =>
        /\ reply'.status = (IF reply'.node_type = "BACKEND_NODE"
                            THEN "CTRL_BACKEND_NODE_ID_CONFLICT"
                            ELSE "CTRL_FRONTEND_NODE_ID_CONFLICT")
        /\ UNCHANGED <<sched_vars, pushed, routes>>]_vars

\* a backend is turned down while a static slot is free
DuplicateBackendWithFreeSlot ==
  /\ reply.op = "Register" /\ reply.status = "CTRL_BACKEND_NODE_ID_CONFLICT"
  /\ Len(static_workloads) > 0
  /\ 0 \notin DOMAIN assigned_static_workloads


\* the step is an RPC of a node that is not registered
UnregisteredCall ==
  /\ reply = NoReply
  /\ reply'.op \in {"LoadModel", "KeepAlive", "UpdateBackendStats"}
  /\ reply'.node_id \notin (IF reply'.node_type = "BACKEND_NODE"
                            THEN DOMAIN backends ELSE DOMAIN frontends)

\* C11 as stated: every RPC of an unregistered node is answered
\* CTRL_SERVER_NOT_REGISTERED and changes nothing
UnregisteredNodeRejected ==
  [][UnregisteredCall =>
        /\ reply'.status = "CTRL_SERVER_NOT_REGISTERED"
        /\ UNCHANGED <<sched_vars, pushed, routes>>]_vars

\* C11: an RPC of an unregistered node changes nothing and is answered
\* CTRL_SERVER_NOT_REGISTERED, except that a LoadModel for a model the
\* database does not know is answered MODEL_NOT_FOUND
UnregisteredNodeRejectedAfterModelCheck ==
  [][UnregisteredCall =>
        /\ reply'.status =
              (IF reply'.op = "LoadModel" /\ ~GetModelInfo(reply'.model)
               THEN "MODEL_NOT_FOUND" ELSE "CTRL_SERVER_NOT_REGISTERED")
        /\ UNCHANGED <<sched_vars, pushed, routes>>]_vars

\* a frontend that had subscribed a session and was removed by BeaconCheck
\* sends a KeepAlive and is turned down
RemovedFrontendTurnedDown ==
  /\ reply.op = "KeepAlive" /\ reply.status = "CTRL_SERVER_NOT_REGISTERED"
  /\ DOMAIN frontends = {}
  /\ DOMAIN session_subscribers # {}
  /\ events = 0

\* the step is a LoadModel of a registered frontend for a session that is in
\* the session table
ExistingSessionCall ==
  /\ reply = NoReply
  /\ reply'.op = "LoadModel"
  /\ reply'.node_id \in DOMAIN frontends
  /\ reply'.model \in DOMAIN session_table

\* C12: LoadModel for a session that is already in the session table is
\* answered CTRL_OK with the current route, changes no backend, no model table
\* pushed and no backend_throughputs whatever the estimated workload, and only
\* adds the frontend as a subscriber; a repeated call changes nothing at all
\* and returns the same route
ExistingSessionOnlySubscribes ==
  [][ExistingSessionCall =>
       LET f == reply'.node_id
           sid == reply'.model
       IN /\ reply'.status = "CTRL_OK"
          /\ UNCHANGED <<backends, pushed, session_table, infos,
                         assigned_static_workloads>>
          /\ frontends' = [frontends EXCEPT ![f] = SubscribeModel(@, sid)]
          /\ \A s \in DOMAIN session_subscribers' :
                session_subscribers'[s] =
                  (IF s \in DOMAIN session_subscribers
                   THEN session_subscribers[s] ELSE {})
                  \cup (IF s = sid THEN {f} ELSE {})
          /\ DOMAIN session_subscribers' = DOMAIN session_subscribers \cup {sid}
          /\ routes'[f][sid] = infos[session_table[sid]].backend_throughputs
          /\ \A s \in Sessions \ {sid} : routes'[f][s] = routes[f][s]
          /\ \A g \in DOMAIN frontends \ {f} : routes'[g] = routes[g]
          /\ (/\ sid \in frontends[f].subscribe_models
              /\ sid \in DOMAIN session_subscribers
              /\ f \in session_subscribers[sid]
              /\ routes[f][sid] = infos[session_table[sid]].backend_throughputs)
             => UNCHANGED <<sched_vars, pushed, routes>>]_vars

\* a subscriber asks again for its session with a workload above what the
\* session's backends provide, and is answered with the route it already has
ExistingSessionAskedForMore ==
  /\ reply.op = "LoadModel" /\ reply.status = "CTRL_OK"
  /\ reply.model \in DOMAIN session_table
  /\ reply.workload > total_throughput(infos[session_table[reply.model]])
  /\ reply.node_id \in DOMAIN routes
  /\ routes[reply.node_id][reply.model] =
       infos[session_table[reply.model]].backend_throughputs
  /\ DOMAIN routes[reply.node_id][reply.model] # {}

\* the nodes of one type that are registered
RegisteredNodes(node_type, fes, bes) ==
  IF node_type = "BACKEND_NODE" THEN DOMAIN bes ELSE DOMAIN fes

\* C13: Unregister of a node id that is not registered is answered CTRL_OK and
\* changes nothing; an Unregister that is answered leaves the id unregistered,
\* so that a second Unregister of the same id is such a call
UnregisterIdempotent ==
  [][(reply = NoReply /\ reply'.op = "Unregister") =>
       /\ reply'.node_id \notin
             RegisteredNodes(reply'.node_type, frontends, backends)
          => /\ reply'.status = "CTRL_OK"
             /\ UNCHANGED <<sched_vars, pushed, routes, events>>
       /\ reply'.status = "CTRL_OK"
          => reply'.node_id \notin
               RegisteredNodes(reply'.node_type, frontends', backends')]_vars

\* a backend that is gone is unregistered once more while the scheduler holds
\* sessions
UnregisteredAgain ==
  /\ reply.op = "Unregister" /\ reply.status = "CTRL_OK"
  /\ reply.node_type = "BACKEND_NODE"
  /\ reply.node_id \notin DOMAIN backends
  /\ events = 0
  /\ DOMAIN session_table # {}

\* the idle registered backends other than b1 whose Assign accepts b1's plan
Takers(b1) ==
  {b \in DOMAIN backends \ {b1} :
     IsIdle(backends[b]) /\ CanAssign(backends[b], backends[b1])}

\* the sessions backend b1 serves: those of its model table and those whose
\* SessionInfo lists it
ServedBy(b1) ==
  ModelTableIds(backends[b1]) \cup
  {s \in DOMAIN session_table : b1 \in DOMAIN infos[session_table[s]].backend_throughputs}

\* the step removes the non-idle backend b1, by Unregister or by a BeaconCheck
\* that finds no other dead node, while an idle backend accepts its plan
RemovedWithTaker(b1) ==
  /\ reply = NoReply
  /\ b1 \in DOMAIN backends
  /\ ~IsIdle(backends[b1])
  /\ Takers(b1) # {}
  /\ \/ /\ reply'.op = "Unregister" /\ reply'.node_type = "BACKEND_NODE"
        /\ reply'.node_id = b1
     \/ /\ reply' = NoReply
        /\ b1 \notin DOMAIN backends'
        /\ \A f \in DOMAIN frontends : IsAlive(frontends[f])
        /\ \A b \in DOMAIN backends \ {b1} : IsAlive(backends[b])

\* b2 has taken over from b1 in this step
TakenOver(b1, b2) ==
  /\ ~crashed'
  /\ b2 \in DOMAIN backends'
  /\ pushed'[b2] = ModelTableIds(backends'[b2])
  /\ ModelTableIds(backends[b1]) \subseteq pushed'[b2]
  /\ \A s \in ServedBy(b1) :
        /\ s \in DOMAIN session_table /\ s \in DOMAIN session_table'
        /\ b1 \notin DOMAIN infos'[session_table'[s]].backend_throughputs
        /\ b2 \in DOMAIN infos'[session_table'[s]].backend_throughputs
        /\ total_throughput(infos'[session_table'[s]]) =
             total_throughput(infos[session_table[s]])
        /\ s \in DOMAIN session_subscribers
           => \A f \in session_subscribers[s] :
                 /\ f \in DOMAIN routes'
                 /\ routes'[f][s] = infos'[session_table'[s]].backend_throughputs

\* C14: when a non-idle backend is removed and an idle backend accepts its
\* plan, every session the removed backend served lists the new backend in
\* its place with the same total throughput, the new backend's model table
\* has been pushed and every subscriber of those sessions has the new route
FailoverByReassignment ==
  [][\A b1 \in DOMAIN backends :
       RemovedWithTaker(b1) => TakenOver(b1, MinOf(Takers(b1)))]_vars

\* the backend of the static slot was unregistered and the idle backend took
\* its plan over: it serves session A, its table is pushed and the subscriber
\* of A holds a route through it
StaticBackendReplaced ==
  /\ reply.op = "Unregister" /\ reply.status = "CTRL_OK"
  /\ reply.node_type = "BACKEND_NODE"
  /\ reply.node_id \notin DOMAIN backends
  /\ 0 \in DOMAIN assigned_static_workloads
  /\ assigned_static_workloads[0] = reply.node_id
  /\ \E b2 \in DOMAIN backends, f \in DOMAIN frontends :
        /\ backends[b2].workload_id = 0
        /\ "A" \in pushed[b2]
        /\ "A" \in DOMAIN session_subscribers
        /\ f \in session_subscribers["A"]
        /\ DOMAIN routes[f]["A"] = {b2}
        /\ DOMAIN infos[session_table["A"]].backend_throughputs = {b2}

\* st is the outcome of a handler that ran to its end and left every
\* backend_throughputs with registered backends only
CompletedClean(st) ==
  /\ ~st.crashed
  /\ \A i \in DOMAIN st.infos :
        DOMAIN st.infos[i].backend_throughputs \subseteq DOMAIN st.backends

\* C15: whatever nodes are dead, the BeaconCheck that removes them runs to
\* its end without an exception, and afterwards backend_throughputs names
\* registered backends only
BeaconCheckNeverFails ==
  (~crashed /\ reply = NoReply) => CompletedClean(Normalize(BeaconCheck(Cur)))

\* a static workload of the workload file names session s
NamedStatic(s) ==
  \E k \in 1..Len(static_workloads) : s \in SeqRange(static_workloads[k])

\* the registered backends that run a static workload and serve session s
StaticServers(s) ==
  {b \in DOMAIN backends : backends[b].workload_id >= 0 /\ HasModel(backends[b], s)}

\* the step removes the last frontends that subscribe session s
LastSubscriberRemoved(s) ==
  /\ s \in DOMAIN session_subscribers
  /\ session_subscribers[s] # {}
  /\ \A f \in session_subscribers[s] :
        f \in DOMAIN frontends /\ f \notin DOMAIN frontends'

\* C16: a session leaves the session table exactly when its last subscribing
\* frontend is removed and no static workload names it; a session that a
\* static-workload backend serves is neither deleted nor unloaded from that
\* backend when frontends are removed
SessionLifecycle ==
  [][~crashed' =>
       \A s \in DOMAIN session_table :
          /\ s \notin DOMAIN session_table'
                <=> (/\ LastSubscriberRemoved(s)
                     /\ ~NamedStatic(s)
                     /\ StaticServers(s) = {})
          /\ \A b \in StaticServers(s) :
                (b \in DOMAIN backends' /\ DOMAIN frontends' # DOMAIN frontends)
                => (s \in DOMAIN session_table' /\ HasModel(backends'[b], s))]_vars

\* C17: the routes a frontend receives for a session arrive in the order of
\* the scheduler's decisions: the route in a LoadModel reply that is still
\* on its way is the last route issued to that frontend for that session, no
\* push of a later decision has overtaken it
RouteOrder ==
  (/\ reply.op = "LoadModel" /\ reply.status = "CTRL_OK"
   /\ reply.node_id \in DOMAIN routes)
  => routes[reply.node_id][reply.model] = reply.route

\* C18: an RPC of a registered node (LoadModel, KeepAlive, UpdateBackendStats)
\* that the scheduler answers refreshes the node's last beacon: whatever time
\* had passed before, the node is alive when the handler returns, so that the
\* next BeaconCheck does not remove it
RpcRefreshesBeacon ==
  [][(/\ reply = NoReply
      /\ reply'.op \in {"LoadModel", "KeepAlive", "UpdateBackendStats"}
      /\ reply'.node_id \in RegisteredNodes(reply'.node_type, frontends, backends)
      /\ ~crashed')
     => /\ reply'.node_id \in RegisteredNodes(reply'.node_type, frontends', backends')
        /\ IF reply'.node_type = "BACKEND_NODE"
           THEN IsAlive(backends'[reply'.node_id])
           ELSE IsAlive(frontends'[reply'.node_id])]_vars

\* the step is a LoadModel answered CTRL_OK that creates the session by
\* allocation: the session is new and has no loaded prefix-sharing session
AllocatingCall ==
  /\ reply = NoReply
  /\ reply'.op = "LoadModel" /\ reply'.status = "CTRL_OK"
  /\ reply'.model \notin DOMAIN session_table
  /\ ~(EnablePrefixBatch /\ FindShareSession(Cur, reply'.model) # "")

\* C19: a LoadModel that creates a session by allocation and answers CTRL_OK
\* returns, for an estimated workload of zero, a route with exactly one
\* backend, which was idle before the call, and otherwise a route of distinct
\* backends, one for each selection made, whose throughputs sum to at least
\* the estimated workload; the requesting frontend is a subscriber of the
\* session afterwards
AllocationMeetsWorkload ==
  [][AllocatingCall =>
       LET f == reply'.node_id
           sid == reply'.model
           route == reply'.route
       IN /\ route = infos'[session_table'[sid]].backend_throughputs
          /\ DOMAIN route \subseteq DOMAIN backends
          /\ IF reply'.workload = 0
             THEN \E b \in DOMAIN backends :
                     DOMAIN route = {b} /\ IsIdle(backends[b])
             ELSE /\ Cardinality(DOMAIN route) =
                       Len(SelectBackends(Cur, sid, reply'.workload))
                  /\ SumMap(route) >= reply'.workload
          /\ sid \in DOMAIN session_subscribers'
          /\ f \in session_subscribers'[sid]
          /\ sid \in frontends'[f].subscribe_models]_vars

\* the model table of every backend and the backend_throughputs of every
\* SessionInfo
Allocation(st) ==
  [tables |-> [b \in DOMAIN st.backends |-> st.backends[b].models],
   throughputs |-> [i \in DOMAIN st.infos |-> st.infos[i].backend_throughputs]]

\* an EpochSchedule pass that starts right after the pass that ended in st1
\* changes no allocation
NextPassKeeps(st1) ==
  LET Same(st2) == st2.crashed \/ Allocation(st2) = Allocation(st1)
  IN st1.crashed \/ Same(Normalize(EpochSchedule(st1)))

\* C20: of two consecutive EpochSchedule passes with nothing in between, so
\* that the second sees the rps history, hence the estimates, and the nodes
\* of the first, the second changes no model table and no backend_throughputs
EpochMonotonicity ==
  (~crashed /\ reply = NoReply /\ EnableEpochSchedule)
  => NextPassKeeps(Normalize(EpochSchedule(Cur)))

\* EpochSchedule would take the shrink branch for SessionInfo i
ShrinkCase(i) ==
  /\ Len(infos[i].rps_history) >= 2
  /\ DOMAIN infos[i].backend_throughputs \subseteq DOMAIN backends
  /\ EstimateRps(infos[i].rps_history) * 100 < total_throughput(infos[i]) * 97

\* the outcome after of the shrink branch for SessionInfo i and estimate est:
\* q is the order in which the dynamic backends were processed
ShrunkWithin(after, q, i, est) ==
  /\ total_throughput(after.infos[i]) >= est
  /\ total_throughput(after.infos[i]) <= total_throughput(infos[i])
  /\ \A k \in 1..Len(q) :
        /\ k > 1 => infos[i].backend_throughputs[q[k - 1]] >=
                       infos[i].backend_throughputs[q[k]]
        /\ q[k] \notin DOMAIN after.infos[i].backend_throughputs
           => /\ ~HasModel(after.backends[q[k]], i)
              /\ StaticThroughput(Cur, i) +
                   SumSeq([j \in 1..(k - 1) |->
                             IF q[j] \in DOMAIN after.infos[i].backend_throughputs
                             THEN after.infos[i].backend_throughputs[q[j]]
                             ELSE 0]) >= est
        /\ q[k] \in DOMAIN after.infos[i].backend_throughputs
           => HasModel(after.backends[q[k]], i)

\* C21: the shrink branch of EpochSchedule leaves the session with a total
\* throughput of at least the estimate and at most what it was; the dynamic
\* backends are taken by descending throughput, and one is unloaded only when
\* the static backends and the dynamic backends before it cover the estimate
EpochShrinkCovers ==
  \A i \in DOMAIN infos :
     ShrinkCase(i) =>
       ShrunkWithin(EpochShrink(Cur, i, i, EstimateRps(infos[i].rps_history)).st,
                    AdjustBackends(Cur, i), i, EstimateRps(infos[i].rps_history))

\* a session whose estimate its first backend covers alone is about to be
\* shrunk: its second backend will be unloaded
ShrinkUnloads ==
  \E i \in DOMAIN infos :
     /\ ShrinkCase(i)
     /\ Cardinality(DOMAIN infos[i].backend_throughputs) = 2
     /\ Cardinality(DOMAIN EpochShrink(Cur, i, i, EstimateRps(infos[i].rps_history))
                              .st.infos[i].backend_throughputs) = 1

\* the orders std::sort may leave the vector of SessionInfo with unassigned
\* workload in: descending, equal elements in any order
SortOutcomes(st) ==
  LET Among(names) ==
        {q \in [1..Cardinality(names) -> names] :
           /\ \A j, k \in DOMAIN q : j # k => q[j] # q[k]
           /\ \A j, k \in DOMAIN q :
                 j < k => st.infos[q[j]].unassigned_workload >=
                          st.infos[q[k]].unassigned_workload}
  IN Among({i \in DOMAIN st.infos : st.infos[i].unassigned_workload > 0})

\* the scheduler when AddBackend has put the new dynamic backend b in backends_
\* and is about to allocate the unassigned workloads
Registering(b) ==
  FreshLocals([Cur EXCEPT !.backends = Put(@, b, NewBackend(b))])

\* C22: AllocateUnassignedWorkloads is a function of the contents of the
\* session table and the backend table: whatever order the sort leaves
\* sessions of equal unassigned_workload in, the assignments and the state it
\* ends in are the same
AllocationDeterministic ==
  \A b \in BackendIds \ DOMAIN backends :
     (~crashed /\ FreeSlots(Cur) = {}) =>
        \A order \in SortOutcomes(Registering(b)) :
           Normalize(AllocateInOrder(Registering(b), order)) =
           Normalize(AllocateUnassignedWorkloads(Registering(b)))

\* request rates FindBestBackend is asked for: none, one a single instance
\* reaches, and one no instance reaches
FindRates == {0, 2, 4, 10}

Candidates(bes, sess, request_rate, skips) ==
  {b \in DOMAIN bes :
     /\ b \notin skips
     /\ IsAlive(bes[b])
     /\ bes[b].workload_id < 0
     /\ request_rate = 0 => IsIdle(bes[b])
     /\ PrepareLoadModel(bes[b], sess, request_rate).ok}

ReferenceChoice(bes, sess, request_rate, cands, best) ==
  LET Plan(b) == PrepareLoadModel(bes[b], sess, request_rate) IN
  /\ best.backend = 0 <=> cands = {}
  /\ cands # {} =>
       /\ best.backend \in cands
       /\ best.inst = Plan(best.backend).inst
       /\ IF request_rate = 0
             \/ \A c \in cands : Plan(c).inst.throughput < request_rate
          THEN \A c \in cands :
                 Plan(c).inst.throughput <= best.inst.throughput
          ELSE \A c \in cands :
                 Plan(c).occupancy <= Plan(best.backend).occupancy

ResidualSettled(before, after, i, sid) ==
  LET fresh == {b \in DOMAIN after.backends :
                  /\ HasModel(after.backends[b], sid)
                  /\ ~HasModel(before.backends[b], sid)}
      Loaded(on) == SumMap([b \in on |-> GetModelThroughput(after.backends[b], sid)])
  IN /\ after.infos[i].unassigned_workload =
          Greater(0, before.infos[i].unassigned_workload - Loaded(fresh))
     /\ after.infos[i].unassigned_workload >= 0
     /\ after.infos[i].unassigned_workload > 0 =>
          FindBestBackend(after.backends, sid,
                          after.infos[i].unassigned_workload, {}).backend = 0
     /\ \A b \in fresh :
          /\ b \in DOMAIN after.infos[i].backend_throughputs
          /\ after.infos[i].backend_throughputs[b] =
               GetModelThroughput(after.backends[b], sid)

AllocationSettles(st, order) ==
  /\ \A j, k \in DOMAIN order :
        j < k => st.infos[order[j]].unassigned_workload >=
                 st.infos[order[k]].unassigned_workload
  /\ \A k \in DOMAIN order :
        ResidualSettled(AllocateInOrder(st, SubSeq(order, 1, k - 1)),
                        AllocateInOrder(st, SubSeq(order, 1, k)),
                        order[k], st.infos[order[k]].model_sessions[1])

RemovedWithoutTaker(bid) ==
  /\ ~crashed
  /\ ~IsIdle(backends[bid])
  /\ backends[bid].workload_id < 0
  /\ Takers(bid) = {}
  /\ ModelTableIds(backends[bid]) \subseteq DOMAIN session_table

\* the state of RemoveBackend for bid right before AllocateUnassignedWorkloads
Returned(bid) ==
  ReturnWorkload(RemoveFromSessions(FreshLocals([Cur EXCEPT !.backends = Erase(@, bid)]),
                                    bid, GetModelSessions(backends[bid])),
                 backends[bid], GetModelSessions(backends[bid]))

\* C25: when a non-idle dynamic backend is removed and no idle backend takes
\* its plan, the unassigned_workload of every SessionInfo it served grows by
\* the throughput the backend contributed to it, once for the SessionInfo
\* whatever the number of its session ids loaded on the backend
RemovedThroughputReturnedOnce ==
  \A bid \in DOMAIN backends :
     RemovedWithoutTaker(bid) =>
        \A i \in DOMAIN infos :
           bid \in DOMAIN infos[i].backend_throughputs =>
              Returned(bid).infos[i].unassigned_workload =
                 infos[i].unassigned_workload + infos[i].backend_throughputs[bid]

\* C27: assigned_static_workloads holds (w -> b) exactly when b is a registered
\* backend whose workload_id is w, w being the index of a static slot
StaticSlotsMatchBackends ==
  ~crashed =>
    \A w \in -1..Len(static_workloads), b \in BackendIds :
       (w \in DOMAIN assigned_static_workloads /\ assigned_static_workloads[w] = b)
       <=> /\ b \in DOMAIN backends
           /\ backends[b].workload_id = w
           /\ 0 <= w /\ w < Len(static_workloads)

\* the static slots no registered backend holds
UnheldSlots ==
  {w \in 0..(Len(static_workloads) - 1) :
     \A x \in DOMAIN backends : backends[x].workload_id # w}

\* the step registers backend b
BackendRegisters(b) ==
  /\ reply = NoReply /\ ~crashed /\ ~crashed'
  /\ b \notin DOMAIN backends
  /\ reply'.op = "Register" /\ reply'.node_type = "BACKEND_NODE"
  /\ reply'.node_id = b /\ reply'.status = "CTRL_OK"

SlotGiven(b, w) ==
  /\ backends'[b].workload_id = w
  /\ \A sid \in SeqRange(static_workloads[w + 1]) :
        /\ HasModel(backends'[b], sid)
        /\ sid \in DOMAIN session_table'

StaysDynamic(b, allocated) ==
  /\ backends'[b].workload_id = -1
  /\ infos' = allocated.infos
  /\ backends' = allocated.backends

\* the step removes the backend b1 of a static slot, by Unregister or by a
\* BeaconCheck that finds no other dead node, and no idle backend takes its plan
StaticRemovedWithoutTaker(b1) ==
  /\ reply = NoReply /\ ~crashed /\ ~crashed'
  /\ b1 \in DOMAIN backends
  /\ backends[b1].workload_id >= 0
  /\ Takers(b1) = {}
  /\ \/ /\ reply'.op = "Unregister" /\ reply'.node_type = "BACKEND_NODE"
        /\ reply'.node_id = b1
     \/ /\ reply' = NoReply
        /\ b1 \notin DOMAIN backends'
        /\ \A f \in DOMAIN frontends : IsAlive(frontends[f])
        /\ \A b \in DOMAIN backends \ {b1} : IsAlive(backends[b])

\* C26: a backend that registers gets the lowest static slot no registered
\* backend holds, with every session of the slot loaded on it and in the
\* session table; when every slot is held it stays dynamic and
\* AllocateUnassignedWorkloads runs; the slot of a static backend removed
\* without reassignment is free for the next registration
StaticSlotsHandedOut ==
  [][/\ \A b \in BackendIds :
          BackendRegisters(b) =>
            IF UnheldSlots # {} THEN SlotGiven(b, MinOf(UnheldSlots))
            ELSE StaysDynamic(b, Normalize(PushChanges(
                                   AllocateUnassignedWorkloads(Registering(b)))))
     /\ \A b1 \in BackendIds :
          StaticRemovedWithoutTaker(b1) =>
            /\ backends[b1].workload_id \notin DOMAIN assigned_static_workloads'
            /\ backends[b1].workload_id \in UnheldSlots']_vars

\* a backend that had registered into a static slot was unregistered with no
\* backend to take its plan, and its slot is free
SlotFreedAgain ==
  /\ reply.op = "Unregister" /\ reply.node_type = "BACKEND_NODE"
  /\ reply.status = "CTRL_OK" /\ ~crashed
  /\ reply.node_id \notin DOMAIN backends
  /\ Len(static_workloads) >= 1
  /\ DOMAIN assigned_static_workloads = {}
  /\ 0 \in UnheldSlots
  /\ \E i \in DOMAIN infos :
        infos[i].has_static_workload /\ infos[i].backend_throughputs = << >>

\* EpochSchedule would take the grow branch for SessionInfo i
GrowCase(i) ==
  /\ ~crashed
  /\ Len(infos[i].rps_history) >= 2
  /\ DOMAIN infos[i].backend_throughputs \subseteq DOMAIN backends
  /\ EstimateRps(infos[i].rps_history) > total_throughput(infos[i])

\* the residual of the estimate est that the backends of SessionInfo i do not
\* cover in state after
GrowResidual(after, i, est) ==
  Greater(0, est - total_throughput(after.infos[i]))

\* C28: when step 1 of EpochSchedule has taken the grow branch for a session
\* and rescaled its dynamic backends, unassigned_workload is the part of the
\* estimate that static and rescaled dynamic throughput leave uncovered, 0
\* when the backends of the session absorbed the increase
EpochGrowLeavesResidual ==
  \A i \in DOMAIN infos :
     GrowCase(i) =>
        LET Left(after) ==
              after.infos[i].unassigned_workload =
                 GrowResidual(after, i, EstimateRps(infos[i].rps_history))
        IN Left(EpochAdjust([st |-> FreshLocals(Cur), over |-> << >>], i).st)

\* the backends of static slots have in state after the model table and the
\* backend_throughputs entries they have now
StaticUntouched(after) ==
  \A b \in DOMAIN backends :
     backends[b].workload_id >= 0 =>
        /\ b \in DOMAIN after.backends
        /\ after.backends[b].models = backends[b].models
        /\ \A i \in DOMAIN infos :
              b \in DOMAIN infos[i].backend_throughputs =>
                 /\ i \in DOMAIN after.infos
                 /\ b \in DOMAIN after.infos[i].backend_throughputs
                 /\ after.infos[i].backend_throughputs[b] =
                      infos[i].backend_throughputs[b]

\* C29: an EpochSchedule pass leaves the model table of every backend with
\* workload_id >= 0 and its entry in every backend_throughputs as they are
EpochKeepsStatic ==
  LET Kept(after) == after.crashed \/ StaticUntouched(after)
  IN (~crashed /\ EnableEpochSchedule) => Kept(Normalize(EpochSchedule(Cur)))

\* an EpochSchedule pass changes the allocation of a session that a static
\* backend serves
EpochAdjustsBesideStatic ==
  /\ ~crashed
  /\ \E i \in DOMAIN infos, b \in DOMAIN backends :
        /\ backends[b].workload_id >= 0
        /\ b \in DOMAIN infos[i].backend_throughputs
        /\ Len(infos[i].rps_history) >= 2
        /\ Allocation(Normalize(EpochSchedule(Cur))) # Allocation(Cur)

\* ceil(a / b) for positive b
CeilDiv(a, b) == MinOf({n \in 0..a : n * b >= a})

\* the SessionInfo that i names after the step, as named before the step: the
\* one a session id of the table maps to on both sides
SameInfoBefore(i) ==
  {j \in DOMAIN infos :
     \E sid \in DOMAIN session_table \cap DOMAIN session_table' :
        session_table[sid] = j /\ session_table'[sid] = i}

\* C30: the rps_history of every SessionInfo holds at most
\* 2 * ceil(epoch / beacon) readings, and a history that was empty starts with
\* a positive reading: a zero is only appended to a non-empty history
RpsHistoryBounded ==
  [][\A i \in DOMAIN infos' :
       /\ Len(infos'[i].rps_history) <=
             2 * CeilDiv(EpochIntervalSec, BeaconIntervalSec)
       /\ (\A j \in SameInfoBefore(i) : infos[j].rps_history = << >>)
          => \/ infos'[i].rps_history = << >>
             \/ infos'[i].rps_history[1] > 0]_vars

\* a history is full and its first positive reading has been shifted out
\* before zeros
RpsHistoryShifted ==
  \E i \in DOMAIN infos :
     /\ Len(infos[i].rps_history) = HistoryLen
     /\ infos[i].rps_history[1] = 0

\* history h2 is history h with at most one reading appended, the oldest
\* reading dropped when that exceeds history_len_
OneSampleMore(h, h2) ==
  \/ h2 = h
  \/ /\ h2 # << >>
     /\ \/ h2 = Append(h, h2[Len(h2)])
        \/ /\ Len(h) = HistoryLen
           /\ h2 = Tail(Append(h, h2[Len(h2)]))

\* C31: step 2 of a BeaconCheck appends at most one aggregated reading to the
\* rps_history of each SessionInfo, whatever the number of session ids that
\* map to it
BeaconAppendsOneSample ==
  LET Once(after) ==
        after.crashed \/
        \A i \in DOMAIN infos :
           OneSampleMore(infos[i].rps_history, after.infos[i].rps_history)
  IN ~crashed => Once(AggregateModelRps(Cur))

-----------------------------------------------------------------------------
(* The control loop of Run *)

\* the interval flags range over 1..MaxIntervalSec; running_ is cleared once
\* MaxElapseSec seconds have elapsed
MaxIntervalSec == 3
MaxElapseSec == 7

\* the largest value of int
IntMax == 2147483647

\* conversion of an unsigned 64-bit value below 2^32 to int
ToInt(x) == IF x <= IntMax THEN x ELSE x - IntMax - IntMax - 2

\* Run has started the RPC service and set its locals
RunStarted(beacon, epoch, epoch_schedule) ==
  [pc |-> "beacon", elapse_sec |-> 0, last_beacon |-> 0, last_epoch |-> 0,
   beacon_interval_sec |-> beacon, epoch_interval_sec |-> epoch,
   enable_epoch_schedule |-> epoch_schedule,
   passes |-> << >>, sleep_sec |-> 0]

\* a next_sec that looks at the beacon only
NextSecOfBeacon(r) == ToInt(r.last_beacon + r.beacon_interval_sec)

\* int next_sec = std::min(last_beacon + beacon, last_epoch + epoch)
NextSec(r) ==
  ToInt(Lesser(r.last_beacon + r.beacon_interval_sec,
               r.last_epoch + r.epoch_interval_sec))

\* the first if of the loop body
RunBeaconCheck ==
  /\ run.pc = "beacon"
  /\ IF run.elapse_sec > 0 /\ run.elapse_sec % run.beacon_interval_sec = 0
     THEN /\ BeaconCheckTick
          /\ run' = [run EXCEPT !.pc = "epoch", !.last_beacon = run.elapse_sec,
                                !.passes = <<"BeaconCheck">>]
     ELSE /\ run' = [run EXCEPT !.pc = "epoch", !.passes = << >>]
          /\ UNCHANGED state_vars
  /\ UNCHANGED <<mutex, threads, worker>>

\* the second if of the loop body
RunEpochSchedule ==
  /\ run.pc = "epoch"
  /\ IF run.elapse_sec > 0 /\ run.elapse_sec % run.epoch_interval_sec = 0
     THEN IF run.enable_epoch_schedule
          THEN /\ Reply(EpochSchedule(Cur), NoCall, "none")
               /\ run' = [run EXCEPT !.pc = "sleep", !.last_epoch = run.elapse_sec,
                                     !.passes = Append(@, "EpochSchedule")]
          ELSE /\ run' = [run EXCEPT !.pc = "sleep", !.last_epoch = run.elapse_sec]
               /\ UNCHANGED state_vars
     ELSE /\ run' = [run EXCEPT !.pc = "sleep"]
          /\ UNCHANGED state_vars
  /\ UNCHANGED <<mutex, threads, worker>>

\* sleep_until(now + (next_sec - elapse_sec)); elapse_sec = next_sec
RunSleep ==
  /\ run.pc = "sleep"
  /\ run.elapse_sec < MaxElapseSec
  /\ run' = [run EXCEPT !.pc = "beacon",
                        !.sleep_sec = NextSec(run) - run.elapse_sec,
                        !.elapse_sec = NextSec(run)]
  /\ UNCHANGED <<state_vars, mutex, threads, worker>>

InitRun ==
  /\ static_workloads = << >>
  /\ frontends = EmptyMap
  /\ backends = EmptyMap
  /\ session_table = EmptyMap
  /\ infos = EmptyMap
  /\ session_subscribers = EmptyMap
  /\ assigned_static_workloads = EmptyMap
  /\ pushed = EmptyMap
  /\ routes = EmptyMap
  /\ unbacked = {}
  /\ prefix_bad = {}
  /\ reply = NoReply
  /\ events = 0
  /\ crashed = FALSE
  /\ mutex = NoThread
  /\ threads = EmptyMap
  /\ worker = NoWorker
  /\ run \in {RunStarted(beacon, epoch, epoch_schedule) :
                beacon \in 1..MaxIntervalSec, epoch \in 1..MaxIntervalSec,
                epoch_schedule \in BOOLEAN}

NextRun ==
  \/ RunBeaconCheck
  \/ RunEpochSchedule
  \/ RunSleep

SpecRun == InitRun /\ [][NextRun]_vars

\* the passes due at elapsed time t
PassesDue(r, t) ==
  (IF t > 0 /\ t % r.beacon_interval_sec = 0 THEN <<"BeaconCheck">> ELSE << >>)
  \o (IF r.enable_epoch_schedule /\ t > 0 /\ t % r.epoch_interval_sec = 0
      THEN <<"EpochSchedule">> ELSE << >>)

\* the first time after t that is a multiple of one of the intervals
NextDue(r, t) ==
  MinOf({u \in (t + 1)..(t + r.beacon_interval_sec) :
           u % r.beacon_interval_sec = 0 \/ u % r.epoch_interval_sec = 0})

\* C32: at every elapsed time the loop of Run stops at, it has run BeaconCheck
\* iff the time is a positive multiple of the beacon interval and then
\* EpochSchedule iff the time is a positive multiple of the epoch interval and
\* epoch scheduling is on; every sleep is positive and ends at the next
\* multiple of one of the two intervals, so none is passed over
RunKeepsSchedule ==
  [][/\ (run.pc = "epoch" /\ run'.pc = "sleep")
          => run'.passes = PassesDue(run, run.elapse_sec)
     /\ (run.pc = "sleep" /\ run'.pc = "beacon")
          => /\ run'.sleep_sec > 0
             /\ run'.elapse_sec = run.elapse_sec + run'.sleep_sec
             /\ run'.elapse_sec = NextDue(run, run.elapse_sec)]_vars

\* both passes have run at a time that is a multiple of both intervals, the
\* epoch interval not being a multiple of the beacon interval
BothPassesOnOneTick ==
  /\ run.pc = "sleep"
  /\ run.epoch_interval_sec % run.beacon_interval_sec # 0
  /\ run.beacon_interval_sec > 1
  /\ run.passes = <<"BeaconCheck", "EpochSchedule">>

\* C33: on every backend, an instance that serves a session loaded as a prefix
\* model (a tail) also serves the session loaded with LoadModel that the tail
\* was attached to (its head)
TailsKeepTheirHead ==
  ~crashed =>
    \A b \in DOMAIN backends :
       \A k \in 1..Len(backends[b].models) :
          \E s \in SeqRange(backends[b].models[k].sessions) :
             s \in backends[b].loaded_heads

\* C34: the model table of a registered backend b holds session id s exactly
\* when s is a key of the session table whose SessionInfo lists b in
\* backend_throughputs
TablesAgreeOnMembership ==
  ~crashed =>
    \A b \in DOMAIN backends, s \in Sessions :
       s \in ModelTableIds(backends[b])
       <=> /\ s \in DOMAIN session_table
           /\ b \in DOMAIN infos[session_table[s]].backend_throughputs

\* C35: EpochSchedule computes the standard deviation of an rps_history, that
\* is the history has at least min_history_len_ readings, only when it has at
\* least 2 readings
StdOverTwoSamples ==
  (~crashed /\ EnableEpochSchedule) =>
     \A i \in DOMAIN infos :
        Len(infos[i].rps_history) >= MinHistoryLen
           => Len(infos[i].rps_history) >= 2

\* ---------------------------------------------------------------------
\* The backend Worker
\* ---------------------------------------------------------------------

\* the largest window_size a query carries
MaxWindowSize == 2

\* the stages of a task; kForward is a stage Process has no case for
Stages == {"kPreprocess", "kForward", "kPostprocess"}

\* the tasks the queue hands out: loaded says whether GetModelInstance finds
\* the model session, status is the result's status when the task arrives,
\* preprocessed is the status ModelInstance::Preprocess leaves behind
Tasks ==
  [stage : Stages, loaded : BOOLEAN, status : {"CTRL_OK", "INPUT_ERROR"},
   window_size : 0..MaxWindowSize, preprocessed : {"CTRL_OK", "INPUT_ERROR"}]

\* what Process has done with a task so far
Untouched(task) ==
  [task |-> task, status |-> task.status, writes |-> << >>, gpu_tasks |-> 0,
   counter |-> 0, preprocesses |-> 0, postprocesses |-> 0]

\* SendReply: the result is written once on the task's connection
SendReply(w) == [w EXCEPT !.writes = Append(@, w.status)]

\* Process that hands every preprocessed task to the GPU executor
ProcessForwardsAll(w) ==
  IF w.task.stage = "kPreprocess"
  THEN IF ~w.task.loaded
       THEN SendReply([w EXCEPT !.status = "MODEL_SESSION_NOT_LOADED"])
       ELSE [w EXCEPT !.counter = @ + (IF w.task.window_size > 0
                                       THEN w.task.window_size ELSE 1),
                      !.preprocesses = @ + 1,
                      !.status = w.task.preprocessed,
                      !.gpu_tasks = @ + 1]
  ELSE IF w.task.stage = "kPostprocess"
  THEN IF w.status # "CTRL_OK"
       THEN SendReply(w)
       ELSE SendReply([w EXCEPT !.postprocesses = @ + 1])
  ELSE w

\* Process: the switch over the task's stage
Process(w) ==
  IF w.task.stage = "kPreprocess"
  THEN IF ~w.task.loaded
       THEN SendReply([w EXCEPT !.status = "MODEL_SESSION_NOT_LOADED"])
       ELSE LET Counted ==
                  [w EXCEPT !.counter = @ + (IF w.task.window_size > 0
                                             THEN w.task.window_size ELSE 1),
                            !.preprocesses = @ + 1,
                            !.status = w.task.preprocessed]
            IN IF Counted.status # "CTRL_OK"
               THEN SendReply(Counted)
               ELSE [Counted EXCEPT !.gpu_tasks = @ + 1]
  ELSE IF w.task.stage = "kPostprocess"
  THEN IF w.status # "CTRL_OK"
       THEN SendReply(w)
       ELSE SendReply([w EXCEPT !.postprocesses = @ + 1])
  ELSE w

\* Run: task_queue_.pop gives a task, or nothing when it times out
WorkerPop ==
  /\ worker.pc = "pop"
  /\ \/ \E task \in Tasks :
          worker' = [pc |-> "process", done |-> Untouched(task)]
     \/ /\ "done" \in DOMAIN worker
        /\ worker' = [pc |-> "pop"]
  /\ UNCHANGED <<state_vars, mutex, threads, run>>

\* Run: the task popped is processed
WorkerProcess ==
  /\ worker.pc = "process"
  /\ worker' = [pc |-> "pop", done |-> Process(worker.done)]
  /\ UNCHANGED <<state_vars, mutex, threads, run>>

\* the Worker thread has been started on an empty queue
InitWorker ==
  /\ static_workloads = << >>
  /\ frontends = EmptyMap
  /\ backends = EmptyMap
  /\ session_table = EmptyMap
  /\ infos = EmptyMap
  /\ session_subscribers = EmptyMap
  /\ assigned_static_workloads = EmptyMap
  /\ pushed = EmptyMap
  /\ routes = EmptyMap
  /\ unbacked = {}
  /\ prefix_bad = {}
  /\ reply = NoReply
  /\ events = 0
  /\ crashed = FALSE
  /\ mutex = NoThread
  /\ threads = EmptyMap
  /\ run = NotRunning
  /\ worker = [pc |-> "pop"]

NextWorker == WorkerPop \/ WorkerProcess

SpecWorker == InitWorker /\ [][NextWorker]_vars

\* the task Process has returned from
Processed == worker.pc = "pop" /\ "done" \in DOMAIN worker

\* the status the stage's check reads: after Preprocess in kPreprocess,
\* as the task arrived in kPostprocess
StatusChecked(task) ==
  IF task.stage = "kPreprocess" THEN task.preprocessed ELSE task.status

\* C36: a task processed in kPreprocess or kPostprocess is replied to once
\* or (kPreprocess only) handed once to the GPU executor, never both and
\* never neither; a kPreprocess task whose model session is not loaded is
\* replied to with MODEL_SESSION_NOT_LOADED and its counter stays; a task
\* whose status is not CTRL_OK is replied to and neither handed to the GPU
\* executor nor post-processed
OneOutcomePerTask ==
  Processed =>
    LET w == worker.done
        task == w.task
    IN task.stage \in {"kPreprocess", "kPostprocess"} =>
         /\ Len(w.writes) + w.gpu_tasks = 1
         /\ w.gpu_tasks = 1 => task.stage = "kPreprocess"
         /\ (task.stage = "kPreprocess" /\ ~task.loaded) =>
              /\ w.writes = <<"MODEL_SESSION_NOT_LOADED">>
              /\ w.counter = 0
         /\ ((task.stage = "kPostprocess" \/ task.loaded)
               /\ StatusChecked(task) # "CTRL_OK") =>
              /\ w.writes = <<StatusChecked(task)>>
              /\ w.gpu_tasks = 0
              /\ w.postprocesses = 0

\* a loaded task failed in Preprocess: counted by its window and answered
PreprocessFailureReplied ==
  /\ Processed
  /\ worker.done.task.stage = "kPreprocess"
  /\ worker.done.task.loaded
  /\ worker.done.task.window_size = MaxWindowSize
  /\ worker.done.counter = MaxWindowSize
  /\ worker.done.writes = <<"INPUT_ERROR">>
  /\ worker.done.gpu_tasks = 0

====
